---- MODULE Spec2Model ----
(***************************************************************************)
(* AnehtaLanguage front end (Go implementation): the tokenizer             *)
(* atoken.ATokenList, its token cursor (GetToken / BackToken / IsEnd) and  *)
(* the recursive-descent parser aparser.AParser.                           *)
(*                                                                         *)
(* Source text is a sequence of one-character strings; a token Value is    *)
(* a sequence of characters too.  Scan indices are 0-based as in the Go    *)
(* code, so data[i] of the code is data[i + 1] here.  A cursor position is *)
(* 1..Len(token_list), and 0 stands for the nil *list.Element.             *)
(***************************************************************************)
EXTENDS Integers, Sequences, FiniteSets, TLC

VARIABLES
    data,              \* []rune(data_str), the text being scanned
    i,                 \* scan index of ATokenList.ReadString
    token_list,        \* ATokenList.token_list
    Error_list,        \* ATokenList.Error_list (lex errors)
    Line,              \* ATokenList.Line
    Column,            \* ATokenList.Column
    current_iterator,  \* ATokenList.current_iterator (0 = nil)
    Count,             \* ATokenList.Count
    Error_List,        \* AParser.Error_List (parse errors)
    pc,                \* where the run is: "scan", "ready", "exit", "panic", "done"
    trace,             \* grammar rules entered, with the cursor at entry
    hist,              \* calls made on the cursor by its client, with their results
    ast_basic_exp,     \* the tree ReadBasicExpression returned (Nil before)
    check_type,        \* the outcome of ast_basic_exp.CheckType()
    calls,             \* GetToken, BackToken and PushError calls of the parser, in order
    literals,          \* the texts a client hands to New_ASTNumber, in order
    numbers,           \* the AST_Number objects made so far: the value of each one's Rat
    arith              \* the last call made on an AST_Number, with its operands and result

vars == <<data, i, token_list, Error_list, Line, Column, current_iterator,
          Count, Error_List, pc, trace, hist, ast_basic_exp, check_type,
          calls, literals, numbers, arith>>

(***************************************************************************)
(* Token types, atoken/atokentype.go                                       *)
(***************************************************************************)
NUM == 1
WORD == 2
ADD == 3
SUB == 4
MUL == 5
DIV == 6
ADDSELF == 7
SUBSELF == 8
POWER == 9
NOT == 10
CASTING == 11
QUOTE == 12
GT == 13
LT == 14
GTEQ == 15
LTEQ == 16
EQ == 17
NOEQ == 18
AND == 19
OR == 20
ALSO == 21
PERHAPS == 22
ESCAPE == 23
COMPOSITE_ADD == 24
COMPOSITE_SUB == 25
COMPOSITE_MUL == 26
COMPOSITE_DIV == 27
MOD == 28
RAND == 29
FUNC == 30
TK_IF == 31
TK_ELSE == 32
TK_NEW == 33
LBRACE == 34
RBRACE == 35
LBRACKET == 36
RBRACKET == 37
LP == 38
RP == 39
NUMBER == 40
INT == 41
INT64 == 42
CHAR == 43
TK_STRING == 44
LIST == 45
MAP == 46
VAR == 47
FOR == 48
BREAK == 49
COMMA == 50
COLON == 51
SWITCH == 52
TK_CASE == 53
ELSEIF == 54
SEMICOLON == 55
ASSIGMENT == 56
EOF == 57
RETURN == 58
TK_TRUE == 59
TK_FALSE == 60
CONTINUE == 61

(***************************************************************************)
(* Character classes                                                       *)
(***************************************************************************)
UpperCase == {"A", "B", "C", "D", "E", "F", "G", "H", "I", "J", "K", "L", "M", "N", "O", "P", "Q", "R", "S", "T", "U", "V", "W", "X", "Y", "Z"}

LowerCase == {"a", "b", "c", "d", "e", "f", "g", "h", "i", "j", "k", "l", "m", "n", "o", "p", "q", "r", "s", "t", "u", "v", "w", "x", "y", "z"}

Digit == {"0", "1", "2", "3", "4", "5", "6", "7", "8", "9"}

\* judge_symbol: a letter, a digit or '_'
judge_symbol(ch) == ch \in UpperCase \/ ch \in LowerCase \/ ch = "_" \/ ch \in Digit

\* the blanks judge_space skips (the vertical tab cannot be written here)
IsBlank(ch) == ch = " " \/ ch = "\t"

(***************************************************************************)
(* The scanner state is the record                                         *)
(*   [data, i, token_list, Error_list, Line, Column, status]               *)
(* status: "scan" while the loop of ReadString runs, "ready" once the scan *)
(* ended without lex errors, "exit" after os.Exit(1), "panic" after a      *)
(* run-time panic (index out of range).                                    *)
(***************************************************************************)
NewScan(src) ==
    [data |-> src, i |-> 0, token_list |-> <<>>, Error_list |-> <<>>,
     Line |-> 1, Column |-> 1, status |-> "scan"]

\* token_list.PushBack(&AToken{s.Line, s.Column, value, type})
PushToken(s, value, type) ==
    [s EXCEPT !.token_list =
        Append(@, [Line |-> s.Line, Column |-> s.Column, Value |-> value, Type |-> type])]

\* Error_list.PushBack(&ALexError{s.Line, s.Column, info}); ch is the
\* offending character of an "illegal token" error and "" otherwise
PushLexError(s, info, ch) ==
    [s EXCEPT !.Error_list =
        Append(@, [Line |-> s.Line, Column |-> s.Column, error_info |-> info, ch |-> ch])]

\* judge_word: data matched from index on; index ends on the last matched
\* character, or where it started when the match fails
RECURSIVE judge_word_loop(_, _, _, _)
judge_word_loop(word, k, index, source) ==
    IF k > Len(word) THEN [ok |-> TRUE, index |-> index - 1]
    ELSE IF index < Len(source) /\ source[index + 1] = word[k]
         THEN judge_word_loop(word, k + 1, index + 1, source)
         ELSE [ok |-> FALSE, index |-> index - (k - 1)]

judge_word(word, index, source) == judge_word_loop(word, 1, index, source)

\* judge_other: the run of symbol characters from index on becomes one WORD
RECURSIVE judge_other_loop(_, _)
judge_other_loop(s, tmp) ==
    IF s.i >= Len(s.data) THEN PushToken(s, tmp, WORD)
    ELSE IF judge_symbol(s.data[s.i + 1])
         THEN judge_other_loop([s EXCEPT !.i = @ + 1], Append(tmp, s.data[s.i + 1]))
         ELSE [PushToken(s, tmp, WORD) EXCEPT !.i = @ - 1]

judge_other(s) == judge_other_loop(s, <<>>)

\* judge_space: skip blanks, leave index on the last one
RECURSIVE judge_space(_)
judge_space(s) ==
    IF s.i < Len(s.data) /\ IsBlank(s.data[s.i + 1])
    THEN judge_space([s EXCEPT !.i = @ + 1])
    ELSE [s EXCEPT !.i = @ - 1]

\* judge_number: digits and dots; a dot met when dot_count > 1 is an error
RECURSIVE judge_number_loop(_, _, _)
judge_number_loop(s, tmp, dot_count) ==
    IF s.i >= Len(s.data) THEN PushToken(s, tmp, NUMBER)
    ELSE LET ch == s.data[s.i + 1] IN
         IF ch \in Digit
         THEN judge_number_loop([s EXCEPT !.i = @ + 1], Append(tmp, ch), dot_count)
         ELSE IF ch = "."
         THEN IF dot_count > 1
              THEN PushToken([PushLexError(s, "illegal number", "") EXCEPT !.i = @ - 1],
                             tmp, NUMBER)
              ELSE judge_number_loop([s EXCEPT !.i = @ + 1], Append(tmp, ch), dot_count + 1)
         ELSE PushToken([s EXCEPT !.i = @ - 1], tmp, NUMBER)

judge_number(s) == judge_number_loop(s, <<>>, 0)

\* judge_string: from the opening quote to the closing one; a backslash
\* copies the next character, and reads past the end when it is the last one
RECURSIVE judge_string_loop(_, _, _)
judge_string_loop(s, tmp, count) ==
    IF s.i >= Len(s.data)
    THEN PushToken(IF count < 2 THEN PushLexError(s, "lose a '\"'", "") ELSE s, tmp, TK_STRING)
    ELSE IF count >= 2 THEN PushToken([s EXCEPT !.i = @ - 1], tmp, TK_STRING)
    ELSE LET ch == s.data[s.i + 1] IN
         IF ch = "\"" THEN judge_string_loop([s EXCEPT !.i = @ + 1], tmp, count + 1)
         ELSE IF ch = "\\"
         THEN IF s.i + 1 >= Len(s.data)
              THEN [s EXCEPT !.i = @ + 1, !.status = "panic"]
              ELSE judge_string_loop([s EXCEPT !.i = @ + 2],
                                     Append(tmp, s.data[s.i + 2]), count)
         ELSE judge_string_loop([s EXCEPT !.i = @ + 1], Append(tmp, ch), count)

judge_string(s) == judge_string_loop(s, <<>>, 0)

(***************************************************************************)
(* ATokenList.ReadString: the cases of its switch                          *)
(***************************************************************************)
\* the keywords tried, in order, for a first letter (cases 'f' .. 'c')
KeywordCases(ch) ==
    CASE
       ch = "f" -> <<<<<<"f", "u", "n", "c">>, FUNC>>, <<<<"f", "o", "r">>, FOR>>, <<<<"f", "a", "l", "s", "e">>, TK_FALSE>>>>
    [] ch = "t" -> <<<<<<"t", "r", "u", "e">>, TK_TRUE>>>>
    [] ch = "r" -> <<<<<<"r", "e", "t", "u", "r", "n">>, RETURN>>>>
    [] ch = "i" -> <<<<<<"i", "f">>, TK_IF>>>>
    [] ch = "e" -> <<<<<<"e", "l", "s", "e", "i", "f">>, ELSEIF>>, <<<<"e", "l", "s", "e">>, TK_ELSE>>>>
    [] ch = "n" -> <<<<<<"n", "e", "w">>, TK_NEW>>, <<<<"n", "u", "m", "b", "e", "r">>, NUMBER>>>>
    [] ch = "l" -> <<<<<<"l", "i", "s", "t">>, LIST>>>>
    [] ch = "m" -> <<<<<<"m", "a", "p">>, MAP>>>>
    [] ch = "v" -> <<<<<<"v", "a", "r">>, VAR>>>>
    [] ch = "b" -> <<<<<<"b", "r", "e", "a", "k">>, BREAK>>>>
    [] ch = "s" -> <<<<<<"s", "w", "i", "t", "c", "h">>, SWITCH>>>>
    [] ch = "c" -> <<<<<<"c", "a", "s", "e">>, TK_CASE>>, <<<<"c", "o", "n", "t", "i", "n", "u", "e">>, CONTINUE>>>>
    [] OTHER -> <<>>

\* the one-character tokens: Value and Type (']' is stored with Value "[");
\* the back quote (ESCAPE) cannot be written in a string here and is left out
SingleCases(ch) ==
    CASE
       ch = ";" -> <<<<";">>, SEMICOLON>>
    [] ch = "{" -> <<<<"{">>, LBRACE>>
    [] ch = "}" -> <<<<"}">>, RBRACE>>
    [] ch = "[" -> <<<<"[">>, LBRACKET>>
    [] ch = "]" -> <<<<"[">>, RBRACKET>>
    [] ch = "(" -> <<<<"(">>, LP>>
    [] ch = ")" -> <<<<")">>, RP>>
    [] ch = "," -> <<<<",">>, COMMA>>
    [] ch = ":" -> <<<<":">>, COLON>>
    [] ch = "^" -> <<<<"^">>, POWER>>
    [] ch = "." -> <<<<".">>, QUOTE>>
    [] ch = "%" -> <<<<"%">>, MOD>>
    [] ch = "~" -> <<<<"~">>, RAND>>
    [] OTHER -> <<>>

\* the operators resolved with one character of lookahead: the Type of the
\* character alone, and the <<second character, Type>> pairs tried in order
OperatorCases(ch) ==
    CASE
       ch = "+" -> [single |-> ADD, pairs |-> <<<<"+", ADDSELF>>, <<"=", COMPOSITE_ADD>>>>]
    [] ch = "-" -> [single |-> SUB, pairs |-> <<<<"-", SUBSELF>>, <<"=", COMPOSITE_SUB>>, <<">", CASTING>>>>]
    [] ch = "*" -> [single |-> MUL, pairs |-> <<<<"=", COMPOSITE_MUL>>>>]
    [] ch = "/" -> [single |-> DIV, pairs |-> <<<<"=", COMPOSITE_DIV>>>>]
    [] ch = ">" -> [single |-> GT, pairs |-> <<<<"=", GTEQ>>>>]
    [] ch = "<" -> [single |-> LT, pairs |-> <<<<"=", LTEQ>>>>]
    [] ch = "=" -> [single |-> ASSIGMENT, pairs |-> <<<<"=", EQ>>>>]
    [] ch = "|" -> [single |-> OR, pairs |-> <<<<"|", PERHAPS>>>>]
    [] ch = "&" -> [single |-> AND, pairs |-> <<<<"&", ALSO>>>>]
    [] OTHER -> [single |-> 0, pairs |-> <<>>]

\* a keyword case: the first keyword that judge_word matches, else judge_other
RECURSIVE KeywordCase(_, _, _)
KeywordCase(s, cands, k) ==
    IF k > Len(cands) THEN judge_other(s)
    ELSE LET r == judge_word(cands[k][1], s.i, s.data) IN
         IF r.ok THEN PushToken([s EXCEPT !.i = r.index], cands[k][1], cands[k][2])
         ELSE KeywordCase(s, cands, k + 1)

\* an operator case: i++, nothing at all when that is the end of the text,
\* else the two-character token or the one-character token and i--
OperatorCase(s, ch) ==
    LET op == OperatorCases(ch)
        s1 == [s EXCEPT !.i = @ + 1]
    IN  IF s1.i >= Len(s.data) THEN s1
        ELSE LET nx  == s.data[s1.i + 1]
                 hit == {p \in 1..Len(op.pairs) : op.pairs[p][1] = nx}
             IN  IF hit # {}
                 THEN PushToken(s1, <<ch, nx>>,
                                op.pairs[CHOOSE p \in hit : \A q \in hit : p <= q][2])
                 ELSE [PushToken(s1, <<ch>>, op.single) EXCEPT !.i = @ - 1]

\* case '!': the index is not advanced before data[i] is compared with '='
NotCase(s) ==
    IF s.i >= Len(s.data) THEN s
    ELSE IF s.data[s.i + 1] = "="
         THEN PushToken(s, <<"!", "=">>, NOEQ)
         ELSE [PushToken(s, <<"!">>, NOT) EXCEPT !.i = @ - 1]

\* case '\n'
NewlineCase(s) ==
    [PushToken(s, <<"\\", "n">>, EOF) EXCEPT !.Line = @ + 1, !.Column = 0]

\* case '\r'
ReturnCase(s) ==
    LET s1 == [s EXCEPT !.i = @ + 1] IN
    IF s1.i >= Len(s.data) THEN s1
    ELSE IF s.data[s1.i + 1] = "\n"
         THEN [PushToken(s1, <<"\\", "r", "\\", "b">>, EOF)
                  EXCEPT !.Line = @ + 1, !.Column = 0]
         ELSE [PushToken(s1, <<"\\", "r">>, EOF)
                  EXCEPT !.Line = @ + 1, !.i = @ - 1, !.Column = 0]

\* the default case without the "illegal token" error: an unrecognized
\* character is skipped
DefaultCase_Skip(s) ==
    LET ch == s.data[s.i + 1] IN
    IF ch \in Digit THEN judge_number(s)
    ELSE IF judge_symbol(ch) THEN judge_other(s)
    ELSE s

\* the default case
DefaultCase(s) ==
    LET ch == s.data[s.i + 1] IN
    IF ch \in Digit THEN judge_number(s)
    ELSE IF judge_symbol(ch) THEN judge_other(s)
    ELSE PushLexError(s, "illegal token", ch)

\* switch data[i]
Switch(s) ==
    LET ch == s.data[s.i + 1] IN
    IF KeywordCases(ch) # <<>> THEN KeywordCase(s, KeywordCases(ch), 1)
    ELSE IF SingleCases(ch) # <<>> THEN PushToken(s, SingleCases(ch)[1], SingleCases(ch)[2])
    ELSE IF OperatorCases(ch).single # 0 THEN OperatorCase(s, ch)
    ELSE IF ch = "!" THEN NotCase(s)
    ELSE IF IsBlank(ch) THEN judge_space(s)
    ELSE IF ch = "\n" THEN NewlineCase(s)
    ELSE IF ch = "\r" THEN ReturnCase(s)
    ELSE IF ch = "\"" THEN judge_string(s)
    ELSE DefaultCase(s)

\* one iteration of the loop with i < len(data): the switch, then
\* s.Column += i - tmp_index + 1 and i++
ScanIteration(s) ==
    LET r == Switch(s) IN
    IF r.status = "panic" THEN r
    ELSE [r EXCEPT !.Column = @ + (r.i - s.i) + 1, !.i = @ + 1]

\* ScanFinish without the error gate: the cursor is set whatever the
\* error list holds
ScanFinish_NoGate(s) ==
    [PushToken(s, <<"E", "n", "d">>, EOF) EXCEPT !.status = "ready"]

\* the iteration with i >= len(data): the terminal End token, then the
\* code after the loop: os.Exit(1) on lex errors, else the cursor is set
ScanFinish(s) ==
    LET r == PushToken(s, <<"E", "n", "d">>, EOF) IN
    [r EXCEPT !.status = IF Len(r.Error_list) > 0 THEN "exit" ELSE "ready"]

\* the record v handed to the continuation F, v evaluated once: the
\* sequencing of two statements of the code
With(v, F(_)) == CHOOSE r \in {F(x) : x \in {v}} : TRUE
\* ReadString as a whole, for at most fuel iterations
RECURSIVE Scan(_, _)
Scan(s, fuel) ==
    IF s.status # "scan" \/ fuel = 0 THEN s
    ELSE IF s.i >= Len(s.data) THEN ScanFinish(s)
    ELSE Scan(ScanIteration(s), fuel - 1)

(***************************************************************************)
(* The expression tree.  The type tags and operators of package aparser    *)
(* carry the prefix AST_ (NUMBER, ADD ... are token types above).  A node  *)
(* is a record with the fields of its Go struct; Nil is the nil pointer.   *)
(***************************************************************************)
AST_NUMBER == 1
AST_BOOL == 2
AST_SELFOPERATION_ADDSELF == 3
AST_SELFOPERATION_SUBSELF == 4
AST_CALLFUNC == 5
AST_VAR == 6
AST_ARITHMETICEXPRESSION == 7
AST_ADD == 8
AST_SUB == 9
AST_MUL == 10
AST_DIV == 11
AST_POWER == 12
AST_MOD == 13
AST_RAND == 14
AST_STRING == 15
AST_CHAR == 16

Nil == [nil |-> TRUE]

\* the outcome of a CheckType call: the tag returned, or status "exit" with
\* the pair of types the message printed before os.Exit(1) names, or
\* "panic" on a nil node
Checked(type) == [status |-> "ok", type |-> type, error |-> ""]

NoCheck == [status |-> "none", type |-> 0, error |-> ""]

(***************************************************************************)
(* The token cursor.  The cursor and parser operators work on the record   *)
(*   [cur, Count, tok, back, ret, status, errs, trace]                     *)
(* cur: current_iterator; tok: the token the last GetToken returned (0 =   *)
(* nil); back: the token the last BackToken returned; ret: the boolean the *)
(* last rule or IsEnd returned; node: the tree the last expression rule    *)
(* returned; calls: the GetToken, BackToken and PushError calls made so    *)
(* far; status: "run", "exit" after os.Exit(1),                            *)
(* "panic" after a nil dereference; errs: AParser.Error_List; trace: the   *)
(* rules entered.  Once status is not "run" nothing runs any more, so      *)
(* every operator returns such a record unchanged.                         *)
(***************************************************************************)
NewCursor(cur, count) ==
    [cur |-> cur, Count |-> count, tok |-> 0, back |-> 0, ret |-> TRUE,
     status |-> "run", errs |-> <<>>, trace |-> <<>>, node |-> Nil,
     calls |-> <<>>]

Ok(st) == st.status = "run"

\* *list.Element.Next and .Prev on a non-nil element; token_list.Back
ElemNext(c) == IF c = Len(token_list) THEN 0 ELSE c + 1

ElemPrev(c) == c - 1

ListBack == Len(token_list)

\* the calls made so far on the cursor, and the errors pushed, in order
Logged(st, op) == [st EXCEPT !.calls = Append(@, op)]

\* ATokenList.GetToken
GetToken(arg) ==
    With(arg, LAMBDA st :
    IF ~Ok(st) THEN st
    ELSE IF st.cur = 0
    THEN Logged([st EXCEPT !.cur = ListBack, !.tok = 0, !.Count = @ + 1], "GetToken")
    ELSE Logged([st EXCEPT !.tok = st.cur, !.cur = ElemNext(st.cur), !.Count = @ + 1],
                "GetToken"))

\* ATokenList.BackToken: .Value of a nil element panics
BackToken(arg) ==
    With(arg, LAMBDA st :
    IF ~Ok(st) THEN st
    ELSE LET c == IF st.cur = 0 THEN ElemPrev(ListBack) ELSE ElemPrev(st.cur) IN
         IF c = 0
         THEN Logged([st EXCEPT !.cur = 0, !.back = 0, !.status = "panic"], "BackToken")
         ELSE Logged([st EXCEPT !.cur = c, !.back = c], "BackToken"))

\* ATokenList.IsEnd: .Next() of a nil element panics
IsEnd(arg) ==
    With(arg, LAMBDA st :
    IF ~Ok(st) THEN st
    ELSE IF st.cur = 0 THEN [st EXCEPT !.status = "panic"]
    ELSE [st EXCEPT !.ret = (ElemNext(st.cur) = ListBack) \/ Len(token_list) <= 3])

(***************************************************************************)
(* Helpers of the grammar rules                                            *)
(***************************************************************************)
\* GetToken followed by the read of a field of the token it returned
\* (token.Type, token.Line): a nil token panics
Take(arg) ==
    With(GetToken(arg), LAMBDA s1 :
    IF Ok(s1) /\ s1.tok = 0 THEN [s1 EXCEPT !.status = "panic"] ELSE s1)

\* the token just taken has this type
TypeIs(st, type) == Ok(st) /\ token_list[st.tok].Type = type

TypeIn(st, types) == Ok(st) /\ token_list[st.tok].Type \in types

\* Fail without the os.Exit(1) after PushError: the rule goes on
Fail_NoExit(arg, t, expecting) ==
    With(arg, LAMBDA st :
    IF ~Ok(st) THEN st
    ELSE [st EXCEPT !.errs = Append(@, [Line |-> token_list[t].Line,
                                         Column |-> token_list[t].Column,
                                         unexpected |-> token_list[t].Value,
                                         expecting |-> expecting]),
                    !.calls = Append(@, "PushError")])

\* s.PushError(token.Line, token.Column, s.File, "unexpected " + token.Value
\* + expecting); os.Exit(1)
Fail(arg, t, expecting) ==
    With(arg, LAMBDA st :
    IF ~Ok(st) THEN st
    ELSE [st EXCEPT !.errs = Append(@, [Line |-> token_list[t].Line,
                                         Column |-> token_list[t].Column,
                                         unexpected |-> token_list[t].Value,
                                         expecting |-> expecting]),
                    !.calls = Append(@, "PushError"),
                    !.status = "exit"])

\* a rule is entered (each rule prints its name on entry)
Enter(arg, rule) ==
    With(arg, LAMBDA st :
    IF ~Ok(st) THEN st ELSE [st EXCEPT !.trace = Append(@, <<rule, st.cur>>)])

Return(arg, b) ==
    With(arg, LAMBDA st : IF ~Ok(st) THEN st ELSE [st EXCEPT !.ret = b])

\* result := new(AST_Arithmetic_Expression_Factor); result.Line = token.Line
NewFactor(st) ==
    [Type |-> 0, Value_Number |-> Nil, Value_Bool |-> FALSE, Value_CallFunc |-> Nil,
     Value_Arithmetic_Expression |-> Nil, Value_VarWord |-> <<>>,
     Line |-> token_list[st.tok].Line]

\* return result: the node a rule hands back to its caller
SetNode(arg, n) ==
    With(arg, LAMBDA st : IF ~Ok(st) THEN st ELSE [st EXCEPT !.node = n])

(***************************************************************************)
(* The grammar rules of AParser                                            *)
(***************************************************************************)
\* a call of a grammar rule, s.<rule>()
RECURSIVE Call(_, _)
RECURSIVE TMP_MainStatement(_)
RECURSIVE FuncReturnType_loop(_)
RECURSIVE TMP_FuncStatement_Define(_)
RECURSIVE FuncStatement_Return_loop(_)
RECURSIVE TMP_AssigmentStatement(_)
RECURSIVE TMP_BlockMain_Statement(_)
RECURSIVE Tmp_CallFuncStatement_Arg(_)
RECURSIVE Boolean_Expression_loop(_)
RECURSIVE Arithmetic_Expression_loop(_)
RECURSIVE Arithmetic_Expression_Term_loop(_)

MainStatement(st) == Call("TMP_MainStatement", Call("Statement", Enter(st, "MainStatement")))

TMP_MainStatement(arg) ==
    With(IsEnd(Enter(arg, "TMP_MainStatement")), LAMBDA s0 :
    IF ~Ok(s0) \/ s0.ret THEN s0
    ELSE With(GetToken(s0), LAMBDA s1 :
         IF s1.tok = 0 THEN s1
         ELSE IF TypeIs(s1, EOF)
         THEN With(Call("Statement", s1), LAMBDA s2 :
              IF Ok(s2) /\ s2.ret THEN TMP_MainStatement(s2) ELSE s2)
         ELSE BackToken(s1)))

\* WordDispatch with one BackToken instead of two before the delegated rule
WordDispatch_OneBack(arg) ==
    With(Take(GetToken(arg)), LAMBDA s2 :
    IF TypeIs(s2, LP) THEN Call("CallFuncStatement", BackToken(s2))
    ELSE IF TypeIn(s2, {ASSIGMENT, COMMA})
    THEN Call("AssigmentStatement", BackToken(s2))
    ELSE s2)

\* the case WORD of Statement and of BlockStatement_Factor: two tokens of
\* lookahead, rewound before the call or the assignment is parsed
WordDispatch(arg) ==
    With(Take(GetToken(arg)), LAMBDA s2 :
    IF TypeIs(s2, LP) THEN Call("CallFuncStatement", BackToken(BackToken(s2)))
    ELSE IF TypeIn(s2, {ASSIGMENT, COMMA})
    THEN Call("AssigmentStatement", BackToken(BackToken(s2)))
    ELSE s2)

Statement(arg) ==
    With(Take(Enter(arg, "Statement")), LAMBDA s1 :
    With(BackToken(s1), LAMBDA s2 :
    Return(
        IF TypeIs(s1, FUNC) THEN Call("FuncStatement", s2)
        ELSE IF TypeIs(s1, VAR) THEN Call("VarStatement", s2)
        ELSE IF TypeIs(s1, LP) THEN Call("BlockStatement", s2)
        ELSE IF TypeIs(s1, WORD) THEN WordDispatch(s2)
        ELSE IF TypeIs(s1, EOF) THEN s2
        ELSE IF TypeIs(s1, FOR) THEN Call("ForStatement", s2)
        ELSE IF TypeIs(s1, TK_IF) THEN Call("IFStatement", s2)
        ELSE Fail(s2, s1.tok, "'func' || '=' || 'var' || '( ' || 'WORD' || '\r\n' || '\\n' || 'for' || 'break' || 'continue' ->Statement"),
        TRUE)))

FuncReturnType_Factor(arg) ==
    With(Take(arg), LAMBDA t :
    IF TypeIs(t, WORD) THEN t ELSE Fail(t, t.tok, "'Type' ->FuncReturnType_Factor"))

FuncReturnType_loop(arg) ==
    With(Take(arg), LAMBDA t :
    IF ~Ok(t) THEN t
    ELSE IF ~TypeIs(t, COMMA) THEN BackToken(t)
    ELSE FuncReturnType_loop(FuncReturnType_Factor(t)))

FuncReturnType(st) == Call("FuncReturnType_loop", FuncReturnType_Factor(st))

FuncStatement_Define_Factor(arg) ==
    With(Take(Enter(arg, "FuncStatement_Define_Factor")), LAMBDA t1 :
    IF ~Ok(t1) THEN t1
    ELSE IF ~TypeIs(t1, VAR) THEN BackToken(t1)
    ELSE With(Take(t1), LAMBDA t2 :
    IF ~Ok(t2) THEN t2
    ELSE IF ~TypeIs(t2, WORD) THEN Fail(t2, t2.tok, "'WORD' ->FuncStatement_Define_Factor")
    ELSE With(Take(t2), LAMBDA t3 :
    IF ~Ok(t3) THEN t3
    ELSE IF ~TypeIs(t3, CASTING) THEN Fail(t3, t3.tok, "'CASTING' ->FuncStatement_Define_Factor")
    ELSE With(Take(t3), LAMBDA t4 :
    IF ~Ok(t4) \/ TypeIs(t4, WORD) THEN t4
    ELSE Fail(t4, t4.tok, "'WORD' ->FuncStatement_Define_Factor")))))

TMP_FuncStatement_Define(arg) ==
    With(Take(Enter(arg, "TMP_FuncStatement_Define")), LAMBDA t :
    IF TypeIs(t, COMMA) THEN TMP_FuncStatement_Define(FuncStatement_Define_Factor(t))
    ELSE BackToken(t))

FuncStatement_Define(st) ==
    Call("TMP_FuncStatement_Define", FuncStatement_Define_Factor(Enter(st, "FuncStatement_Define")))

\* FuncStatement with the return annotation optional
FuncStatement_OptionalReturn(arg) ==
    With(Take(Enter(arg, "FuncStatement")), LAMBDA t1 :
    IF ~Ok(t1) THEN t1
    ELSE IF ~TypeIs(t1, FUNC) THEN Fail(t1, t1.tok, "'func' ->FUncStatement")
    ELSE With(Take(t1), LAMBDA t2 :
    IF ~Ok(t2) THEN t2
    ELSE IF ~TypeIs(t2, WORD) THEN Fail(t2, t2.tok, "'WORD' ->FuncStatement")
    ELSE With(Take(t2), LAMBDA t3 :
    IF ~Ok(t3) THEN t3
    ELSE IF ~TypeIs(t3, LP) THEN Fail(t3, t3.tok, "'(' ->FuncStatement")
    ELSE With(Take(FuncStatement_Define(t3)), LAMBDA t4 :
    IF ~Ok(t4) THEN t4
    ELSE IF ~TypeIs(t4, RP) THEN Fail(t4, t4.tok, "')' ->FuncStatement")
    ELSE With(Take(t4), LAMBDA t5 :
    IF ~Ok(t5) THEN t5
    ELSE IF TypeIs(t5, CASTING) THEN Call("BlockStatement", FuncReturnType(t5))
    ELSE Call("BlockStatement", BackToken(t5)))))))

FuncStatement(arg) ==
    With(Take(Enter(arg, "FuncStatement")), LAMBDA t1 :
    IF ~Ok(t1) THEN t1
    ELSE IF ~TypeIs(t1, FUNC) THEN Fail(t1, t1.tok, "'func' ->FUncStatement")
    ELSE With(Take(t1), LAMBDA t2 :
    IF ~Ok(t2) THEN t2
    ELSE IF ~TypeIs(t2, WORD) THEN Fail(t2, t2.tok, "'WORD' ->FuncStatement")
    ELSE With(Take(t2), LAMBDA t3 :
    IF ~Ok(t3) THEN t3
    ELSE IF ~TypeIs(t3, LP) THEN Fail(t3, t3.tok, "'(' ->FuncStatement")
    ELSE With(Take(FuncStatement_Define(t3)), LAMBDA t4 :
    IF ~Ok(t4) THEN t4
    ELSE IF ~TypeIs(t4, RP) THEN Fail(t4, t4.tok, "')' ->FuncStatement")
    ELSE With(Take(t4), LAMBDA t5 :
    IF ~Ok(t5) THEN t5
    ELSE IF TypeIs(t5, CASTING) THEN Call("BlockStatement", FuncReturnType(t5))
    ELSE Fail(t5, t4.tok, "'->(CASTRING)' ->FuncStatement"))))))

BreakStatement(arg) ==
    With(Take(arg), LAMBDA t1 :
    IF TypeIs(t1, BREAK) THEN t1 ELSE Fail(t1, t1.tok, "'break' ->BreakStatement"))

ContinueStatement(arg) ==
    With(Take(arg), LAMBDA t1 :
    IF TypeIs(t1, CONTINUE) THEN t1 ELSE Fail(t1, t1.tok, "'continue' ->ContinueStatement"))

FuncStatement_Return_loop(arg) ==
    With(Take(arg), LAMBDA t3 :
    IF ~Ok(t3) THEN t3
    ELSE IF ~TypeIs(t3, COMMA) THEN BackToken(t3)
    ELSE FuncStatement_Return_loop(Call("Arithmetic_Expression", t3)))

FuncStatement_Return(arg) ==
    With(Take(arg), LAMBDA t1 :
    IF ~TypeIs(t1, RETURN) THEN t1
    ELSE With(Take(t1), LAMBDA t2 :
    IF ~Ok(t2) \/ TypeIs(t2, EOF) THEN t2
    ELSE Call("FuncStatement_Return_loop", Call("Arithmetic_Expression", BackToken(t2)))))

TMP_MoreArithmetic_Expression(arg) ==
    With(Take(Enter(arg, "TMP_MoreArithmetic_Expression")), LAMBDA t :
    IF TypeIs(t, COMMA) THEN Call("Arithmetic_Expression", t) ELSE BackToken(t))

MoreArithmetic_Expression(st) ==
    TMP_MoreArithmetic_Expression(
        Call("Arithmetic_Expression", Enter(st, "MoreArithmetic_Expression")))

TMP_AssigmentStatement(arg) ==
    With(Take(Enter(arg, "TMP_AssigmentStatement")), LAMBDA t1 :
    IF ~TypeIs(t1, COMMA) THEN BackToken(t1)
    ELSE With(Take(t1), LAMBDA t2 :
    IF ~Ok(t2) THEN t2
    ELSE IF TypeIs(t2, WORD) THEN TMP_AssigmentStatement(t2)
    ELSE Fail(t2, t2.tok, "'WORD' ->TMP_AssigmentStatement")))

AssigmentStatement(arg) ==
    With(Take(Enter(arg, "AssigmentStatement")), LAMBDA t1 :
    IF ~Ok(t1) THEN t1
    ELSE IF ~TypeIs(t1, WORD) THEN Fail(t1, t1.tok, "'WORD' ->AssigmentStatement")
    ELSE With(Take(Call("TMP_AssigmentStatement", t1)), LAMBDA t2 :
    IF ~Ok(t2) THEN t2
    ELSE IF TypeIs(t2, ASSIGMENT) THEN MoreArithmetic_Expression(t2)
    ELSE Fail(t2, t2.tok, "'=' ->AssigmentStatement")))

IFStatement_ELSE(arg) ==
    With(Take(Enter(arg, "IFStatement_ELSE")), LAMBDA t1 :
    IF TypeIs(t1, TK_ELSE) THEN Call("BlockStatement", t1)
    ELSE IF ~TypeIs(t1, ELSEIF) THEN BackToken(BackToken(t1))
    ELSE With(Take(t1), LAMBDA t2 :
    IF ~Ok(t2) THEN t2
    ELSE IF ~TypeIs(t2, LP) THEN Fail(t2, t2.tok, "'(' ->IFStatement_ELSE")
    ELSE With(Take(Call("Boolean_Expression", t2)), LAMBDA t3 :
    IF ~Ok(t3) THEN t3
    ELSE IF TypeIs(t3, RP) THEN Call("BlockStatement", t3)
    ELSE Fail(t3, t3.tok, "')' ->IFStatement_ELSE"))))

IFStatement(arg) ==
    With(Take(Enter(arg, "IFStatement")), LAMBDA t1 :
    IF ~Ok(t1) THEN t1
    ELSE IF ~TypeIs(t1, TK_IF) THEN Fail(t1, t1.tok, "'if' ->IFStatement")
    ELSE With(Take(t1), LAMBDA t2 :
    IF ~Ok(t2) THEN t2
    ELSE IF ~TypeIs(t2, LP) THEN Fail(t2, t2.tok, "'(' ->IFStatement")
    ELSE With(Take(Call("Boolean_Expression", t2)), LAMBDA t3 :
    IF ~Ok(t3) THEN t3
    ELSE IF TypeIs(t3, RP) THEN Call("IFStatement_ELSE", Call("BlockStatement", t3))
    ELSE Fail(t3, t3.tok, "')' ->IFStatement"))))

VarStatement(arg) ==
    With(Take(Enter(arg, "VarStatement")), LAMBDA t1 :
    IF ~Ok(t1) THEN t1
    ELSE IF ~TypeIs(t1, VAR) THEN Fail(t1, t1.tok, "'var' ->VarStatement")
    ELSE With(Take(t1), LAMBDA t2 :
    IF ~Ok(t2) THEN t2
    ELSE IF ~TypeIs(t2, WORD) THEN Fail(t2, t2.tok, "'WORD' ->IFStatement_ELSE")
    ELSE With(Take(t2), LAMBDA t3 :
    IF ~Ok(t3) THEN t3
    ELSE IF ~TypeIs(t3, CASTING) THEN Call("AssigmentStatement", BackToken(BackToken(t3)))
    ELSE With(Take(t3), LAMBDA t4 :
    IF ~Ok(t4) \/ TypeIs(t4, WORD) THEN t4
    ELSE Fail(t4, t4.tok, "'Type' ->VarStatement")))))

TMP_BlockMain_Statement(arg) ==
    With(Take(Enter(arg, "TMP_BlockMain_Statement")), LAMBDA t1 :
    IF ~TypeIs(t1, EOF) THEN BackToken(t1)
    ELSE With(Call("BlockStatement_Factor", t1), LAMBDA s2 :
         IF Ok(s2) /\ s2.ret THEN TMP_BlockMain_Statement(s2) ELSE s2))

BlockMain_Statement(st) ==
    Call("TMP_BlockMain_Statement", Call("BlockStatement_Factor", Enter(st, "BlockMain_Statement")))

BlockStatement(arg) ==
    With(Take(Enter(arg, "BlockStatement")), LAMBDA t1 :
    IF ~Ok(t1) THEN t1
    ELSE IF ~TypeIs(t1, LBRACE) THEN Fail(t1, t1.tok, "'{' ->BlockStatement")
    ELSE With(Take(BlockMain_Statement(t1)), LAMBDA t2 :
    IF ~Ok(t2) \/ TypeIs(t2, RBRACE) THEN t2
    ELSE Fail(t2, t2.tok, "'}' ->BlockStatement")))

BlockStatement_Factor(arg) ==
    With(Take(Enter(arg, "BlockStatement_Factor")), LAMBDA s1 :
    With(BackToken(s1), LAMBDA s2 :
    IF TypeIs(s1, RBRACE) THEN Return(s2, FALSE)
    ELSE Return(
          IF TypeIs(s1, VAR) THEN Call("VarStatement", s2)
          ELSE IF TypeIs(s1, WORD) THEN WordDispatch(s2)
          ELSE IF TypeIs(s1, EOF) THEN s2
          ELSE IF TypeIs(s1, FOR) THEN Call("ForStatement", s2)
          ELSE IF TypeIs(s1, TK_IF) THEN Call("IFStatement", s2)
          ELSE IF TypeIs(s1, RETURN) THEN FuncStatement_Return(s2)
          ELSE IF TypeIs(s1, CONTINUE) THEN ContinueStatement(s2)
          ELSE IF TypeIs(s1, BREAK) THEN BreakStatement(s2)
          ELSE Fail(s2, s1.tok, "'func' || '=' || 'var' || '( ' || 'WORD' || '\r\n' || '\n' || 'for' ->BlockStatement_Factor"),
          TRUE)))

Tmp_CallFuncStatement_Arg(arg) ==
    With(Take(Enter(arg, "Tmp_CallFuncStatement_Arg")), LAMBDA t :
    IF TypeIs(t, COMMA) THEN Tmp_CallFuncStatement_Arg(Call("Arithmetic_Expression", t))
    ELSE BackToken(t))

CallFuncStatement_Arg(st) ==
    Call("Tmp_CallFuncStatement_Arg", Call("Arithmetic_Expression", Enter(st, "CallFuncStatement_Arg")))

CallFuncStatement(arg) ==
    With(Take(Enter(arg, "CallFuncStatement")), LAMBDA t1 :
    IF ~Ok(t1) THEN t1
    ELSE IF ~TypeIs(t1, WORD) THEN Fail(t1, t1.tok, "'WORD' ->CallFuncStatement")
    ELSE With(Take(t1), LAMBDA t2 :
    IF ~Ok(t2) THEN t2
    ELSE IF ~TypeIs(t2, LP) THEN Fail(t2, t2.tok, "'{' ->CallFuncStatement")
    ELSE With(Take(t2), LAMBDA t4 :
    IF ~Ok(t4) \/ TypeIs(t4, RP) THEN t4
    ELSE With(Take(CallFuncStatement_Arg(BackToken(t4))), LAMBDA t3 :
    IF ~Ok(t3) \/ TypeIs(t3, RP) THEN t3
    ELSE Fail(t3, t3.tok, "'}' ->CallFuncStatement")))))

ForStatement_Assigment(arg) ==
    With(Take(Enter(arg, "ForStatement_Assigment")), LAMBDA t :
    IF TypeIs(t, VAR) THEN Call("VarStatement", BackToken(t))
    ELSE Call("AssigmentStatement", BackToken(t)))

\* the first clause of ForStatement: empty when the next token is ';'
ForInit(arg) ==
    With(Take(arg), LAMBDA t :
    IF TypeIs(t, SEMICOLON) THEN BackToken(t) ELSE ForStatement_Assigment(BackToken(t)))

\* the second clause: empty when the next token is ';'
ForCond(arg) ==
    With(Take(arg), LAMBDA t :
    IF TypeIs(t, SEMICOLON) THEN BackToken(t) ELSE Call("Boolean_Expression", BackToken(t)))

\* the third clause: empty when the next token is ')'
ForStep(arg) ==
    With(Take(arg), LAMBDA t :
    IF TypeIs(t, RP) THEN BackToken(t) ELSE ForStatement_Assigment(BackToken(t)))

\* a ';' of ForStatement
ForSemicolon(arg) ==
    With(Take(arg), LAMBDA t :
    IF TypeIs(t, SEMICOLON) THEN t ELSE Fail(t, t.tok, "'WORD' ->ForStatement"))

ForStatement(arg) ==
    With(Take(Enter(arg, "ForStatement")), LAMBDA t1 :
    IF ~Ok(t1) THEN t1
    ELSE IF ~TypeIs(t1, FOR) THEN Fail(t1, t1.tok, "'for' ->ForStatement")
    ELSE With(Take(t1), LAMBDA t2 :
    IF ~Ok(t2) THEN t2
    ELSE IF ~TypeIs(t2, LP) THEN Fail(t2, t2.tok, "'WORD' ->ForStatement")
    ELSE With(Take(ForStep(ForSemicolon(ForCond(ForSemicolon(ForInit(t2)))))),
              LAMBDA t5 :
    IF ~Ok(t5) THEN t5
    ELSE IF TypeIs(t5, RP) THEN Call("BlockStatement", t5)
    ELSE Fail(t5, t5.tok, "')' ->ForStatement"))))

Boolean_Expression_loop(arg) ==
    With(Take(arg), LAMBDA t :
    IF ~Ok(t) THEN t
    ELSE IF ~TypeIn(t, {ALSO, PERHAPS}) THEN BackToken(t)
    ELSE Boolean_Expression_loop(Call("Boolean_Expression_Factor", t)))

Boolean_Expression(st) ==
    Call("Boolean_Expression_loop", Call("Boolean_Expression_Factor", Enter(st, "Boolean_Expression")))

\* Boolean_Expression_Factor with == and != among the comparison operators
Boolean_Expression_Factor_WithEqual(arg) ==
    With(Take(Enter(arg, "Boolean_Expression_Factor")), LAMBDA t1 :
    IF ~Ok(t1) THEN t1
    ELSE IF TypeIs(t1, LP)
    THEN With(Take(Call("Boolean_Expression", t1)), LAMBDA p :
         IF ~Ok(p) \/ TypeIs(p, RP) THEN p
         ELSE Fail(p, t1.tok, "')' ->Boolean_Expression_Factor"))
    ELSE With(Take(Call("Arithmetic_Expression", BackToken(t1))), LAMBDA s :
         IF ~Ok(s) THEN s
         ELSE IF TypeIn(s, {GT, LT, GTEQ, LTEQ, EQ, NOEQ}) THEN Call("Arithmetic_Expression", s)
         ELSE Fail(s, t1.tok, "'(' || '>' || '<' || '>=' || '<=' ->Boolean_Expression_Factor")))

Boolean_Expression_Factor(arg) ==
    With(Take(Enter(arg, "Boolean_Expression_Factor")), LAMBDA t1 :
    IF ~Ok(t1) THEN t1
    ELSE IF TypeIs(t1, LP)
    THEN With(Take(Call("Boolean_Expression", t1)), LAMBDA p :
         IF ~Ok(p) \/ TypeIs(p, RP) THEN p
         ELSE Fail(p, t1.tok, "')' ->Boolean_Expression_Factor"))
    ELSE With(Take(Call("Arithmetic_Expression", BackToken(t1))), LAMBDA s :
         IF ~Ok(s) THEN s
         ELSE IF TypeIn(s, {GT, LT, GTEQ, LTEQ}) THEN Call("Arithmetic_Expression", s)
         ELSE Fail(s, t1.tok, "'(' || '>' || '<' || '>=' || '<=' ->Boolean_Expression_Factor")))

\* the operator of an AST node for the token just taken (tmp_result.Type = ADD ...)
NodeOperator(st) ==
    CASE TypeIs(st, ADD) -> AST_ADD
      [] TypeIs(st, SUB) -> AST_SUB
      [] TypeIs(st, MUL) -> AST_MUL
      [] TypeIs(st, DIV) -> AST_DIV
      [] TypeIs(st, POWER) -> AST_POWER
      [] TypeIs(st, MOD) -> AST_MOD
      [] TypeIs(st, RAND) -> AST_RAND
      [] OTHER -> 0

\* the loop of Arithmetic_Expression that links the rest of the chain to the
\* node and leaves the operator tag of the node unset
Arithmetic_Expression_loop_Untagged(arg) ==
    With(Take(arg), LAMBDA t :
    IF ~Ok(t) THEN t
    ELSE IF ~TypeIn(t, {ADD, SUB})
    THEN SetNode(BackToken(t),
                 [Type |-> 0, Value_Term |-> t.node, Value_Exp |-> Nil])
    ELSE With(Arithmetic_Expression_loop(Call("Arithmetic_Expression_Term", t)),
              LAMBDA r :
         SetNode(r, [Type |-> 0, Value_Term |-> t.node, Value_Exp |-> r.node])))

\* the loop of Arithmetic_Expression: arg.node is the term just parsed, the
\* node returned holds it and, after an operator, the rest of the chain
Arithmetic_Expression_loop(arg) ==
    With(Take(arg), LAMBDA t :
    IF ~Ok(t) THEN t
    ELSE IF ~TypeIn(t, {ADD, SUB})
    THEN SetNode(BackToken(t),
                 [Type |-> 0, Value_Term |-> t.node, Value_Exp |-> Nil])
    ELSE With(Arithmetic_Expression_loop(Call("Arithmetic_Expression_Term", t)),
              LAMBDA r :
         SetNode(r, [Type |-> NodeOperator(t), Value_Term |-> t.node,
                     Value_Exp |-> r.node])))

Arithmetic_Expression(st) ==
    Call("Arithmetic_Expression_loop", 
        Call("Arithmetic_Expression_Term", Enter(st, "Arithmetic_Expression")))

\* Arithmetic_Expression_Term_loop that gives the operators of the
\* multiplicative level no chain of their own: the term ends at its first
\* factor
Arithmetic_Expression_Term_loop_OneFactor(arg) ==
    With(Take(arg), LAMBDA t :
    IF ~Ok(t) THEN t
    ELSE SetNode(BackToken(t),
                 [Type |-> 0, Value_Factor |-> t.node, Value_Term |-> Nil]))

\* the loop of Arithmetic_Expression_Term: arg.node is the factor just parsed
Arithmetic_Expression_Term_loop(arg) ==
    With(Take(arg), LAMBDA t :
    IF ~Ok(t) THEN t
    ELSE IF ~TypeIn(t, {MUL, DIV, POWER, MOD, RAND})
    THEN SetNode(BackToken(t),
                 [Type |-> 0, Value_Factor |-> t.node, Value_Term |-> Nil])
    ELSE With(Arithmetic_Expression_Term_loop(Call("Arithmetic_Expression_Factor", t)),
              LAMBDA r :
         SetNode(r, [Type |-> NodeOperator(t), Value_Factor |-> t.node,
                     Value_Term |-> r.node])))

Arithmetic_Expression_Term(st) ==
    Call("Arithmetic_Expression_Term_loop", 
        Call("Arithmetic_Expression_Factor", Enter(st, "Arithmetic_Expression_Term")))

Arithmetic_Expression_Factor(arg) ==
    With(Take(Enter(arg, "Arithmetic_Expression_Factor")), LAMBDA t :
    IF ~Ok(t) THEN t
    ELSE IF TypeIs(t, NUMBER)
    THEN SetNode(t, [NewFactor(t) EXCEPT !.Type = AST_NUMBER,
                                         !.Value_Number = token_list[t.tok].Value])
    ELSE IF TypeIs(t, TK_TRUE)
    THEN SetNode(t, [NewFactor(t) EXCEPT !.Type = AST_BOOL, !.Value_Bool = TRUE])
    ELSE IF TypeIs(t, TK_FALSE)
    THEN SetNode(t, [NewFactor(t) EXCEPT !.Type = AST_BOOL, !.Value_Bool = FALSE])
    ELSE IF TypeIs(t, LP)
    THEN With(Call("Arithmetic_Expression", t), LAMBDA e :
         With(Take(e), LAMBDA p :
         IF ~Ok(p) THEN p
         ELSE IF TypeIs(p, RP)
         THEN SetNode(p, [NewFactor(t) EXCEPT !.Type = AST_ARITHMETICEXPRESSION,
                                              !.Value_Arithmetic_Expression = e.node])
         ELSE Fail(p, p.tok, "'}' ->Arithmetic_Expression_Factor")))
    ELSE IF TypeIs(t, WORD)
    THEN With(Take(t), LAMBDA t1 :
         IF ~Ok(t1) THEN t1
         ELSE IF TypeIs(t1, ADDSELF)
         THEN SetNode(t1, [NewFactor(t) EXCEPT !.Type = AST_SELFOPERATION_ADDSELF,
                                               !.Value_VarWord = token_list[t.tok].Value])
         ELSE IF TypeIs(t1, SUBSELF)
         THEN SetNode(t1, [NewFactor(t) EXCEPT !.Type = AST_SELFOPERATION_SUBSELF,
                                               !.Value_VarWord = token_list[t.tok].Value])
         ELSE IF TypeIs(t1, LP)
         THEN SetNode(Call("CallFuncStatement", BackToken(BackToken(t1))),
                      [NewFactor(t) EXCEPT !.Type = AST_CALLFUNC])
         ELSE SetNode(BackToken(t1),
                      [NewFactor(t) EXCEPT !.Type = AST_VAR,
                                           !.Value_VarWord = token_list[t.tok].Value]))
    ELSE Fail(t, t.tok, "'num' || 'WORD' || 'true' || 'false' || ->Arithmetic_Expression_Factor"))


\* the method of AParser a call names
Call(rule, st) ==
    CASE rule = "TMP_MainStatement" -> TMP_MainStatement(st)
      [] rule = "Statement" -> Statement(st)
      [] rule = "FuncStatement" -> FuncStatement(st)
      [] rule = "FuncReturnType_loop" -> FuncReturnType_loop(st)
      [] rule = "TMP_FuncStatement_Define" -> TMP_FuncStatement_Define(st)
      [] rule = "FuncStatement_Return_loop" -> FuncStatement_Return_loop(st)
      [] rule = "AssigmentStatement" -> AssigmentStatement(st)
      [] rule = "TMP_AssigmentStatement" -> TMP_AssigmentStatement(st)
      [] rule = "IFStatement" -> IFStatement(st)
      [] rule = "IFStatement_ELSE" -> IFStatement_ELSE(st)
      [] rule = "VarStatement" -> VarStatement(st)
      [] rule = "BlockStatement" -> BlockStatement(st)
      [] rule = "TMP_BlockMain_Statement" -> TMP_BlockMain_Statement(st)
      [] rule = "BlockStatement_Factor" -> BlockStatement_Factor(st)
      [] rule = "CallFuncStatement" -> CallFuncStatement(st)
      [] rule = "Tmp_CallFuncStatement_Arg" -> Tmp_CallFuncStatement_Arg(st)
      [] rule = "ForStatement" -> ForStatement(st)
      [] rule = "Boolean_Expression" -> Boolean_Expression(st)
      [] rule = "Boolean_Expression_loop" -> Boolean_Expression_loop(st)
      [] rule = "Boolean_Expression_Factor" -> Boolean_Expression_Factor(st)
      [] rule = "Arithmetic_Expression" -> Arithmetic_Expression(st)
      [] rule = "Arithmetic_Expression_loop" -> Arithmetic_Expression_loop(st)
      [] rule = "Arithmetic_Expression_Term" -> Arithmetic_Expression_Term(st)
      [] rule = "Arithmetic_Expression_Term_loop" -> Arithmetic_Expression_Term_loop(st)
      [] rule = "Arithmetic_Expression_Factor" -> Arithmetic_Expression_Factor(st)

(***************************************************************************)
(* CheckType of the expression tree                                        *)
(***************************************************************************)
\* the three tests a binary node makes on the types of its two sides; each
\* prints its message and calls os.Exit(1)
TypeConflict(Type1, Type2) ==
    IF {Type1, Type2} = {AST_BOOL, AST_NUMBER} THEN "number-bool"
    ELSE IF {Type1, Type2} = {AST_STRING, AST_NUMBER} THEN "number-string"
    ELSE IF {Type1, Type2} = {AST_CHAR, AST_NUMBER} THEN "number-char"
    ELSE ""

\* BinaryCheck that returns the type of the right side
BinaryCheck_Type2(c1, c2) ==
    IF TypeConflict(c1.type, c2.type) # ""
    THEN [status |-> "exit", type |-> 0, error |-> TypeConflict(c1.type, c2.type)]
    ELSE Checked(c2.type)

\* Type1 and Type2 of a binary node: the conflict tests, then return Type1
BinaryCheck(c1, c2) ==
    IF TypeConflict(c1.type, c2.type) # ""
    THEN [status |-> "exit", type |-> 0, error |-> TypeConflict(c1.type, c2.type)]
    ELSE Checked(c1.type)

NilCheck == [status |-> "panic", type |-> 0, error |-> ""]

RECURSIVE Expression_CheckType(_), Term_CheckType(_), Factor_CheckType(_)

\* AST_Arithmetic_Expression_Factor.CheckType
Factor_CheckType(s) ==
    IF s = Nil THEN NilCheck
    ELSE IF s.Type = AST_ARITHMETICEXPRESSION
    THEN Expression_CheckType(s.Value_Arithmetic_Expression)
    ELSE Checked(s.Type)

\* Term.CheckType that resolves the type of its first factor and never
\* looks at the rest of the chain
Term_CheckType_FirstFactor(s) ==
    IF s = Nil THEN NilCheck ELSE Factor_CheckType(s.Value_Factor)

\* AST_Arithmetic_Expression_Term.CheckType
Term_CheckType(s) ==
    IF s = Nil THEN NilCheck
    ELSE IF s.Type = 0 /\ s.Value_Term = Nil THEN Factor_CheckType(s.Value_Factor)
    ELSE With(Factor_CheckType(s.Value_Factor), LAMBDA c1 :
         IF c1.status # "ok" THEN c1
         ELSE With(Term_CheckType(s.Value_Term), LAMBDA c2 :
              IF c2.status # "ok" THEN c2 ELSE BinaryCheck(c1, c2)))

\* Expression.CheckType that resolves the type of its first term and never
\* looks at the rest of the chain
Expression_CheckType_FirstTerm(s) ==
    IF s = Nil THEN NilCheck ELSE Term_CheckType(s.Value_Term)

\* AST_Arithmetic_Expression.CheckType
Expression_CheckType(s) ==
    IF s = Nil THEN NilCheck
    ELSE IF s.Type = 0 /\ s.Value_Exp = Nil THEN Term_CheckType(s.Value_Term)
    ELSE With(Term_CheckType(s.Value_Term), LAMBDA c1 :
         IF c1.status # "ok" THEN c1
         ELSE With(Expression_CheckType(s.Value_Exp), LAMBDA c2 :
              IF c2.status # "ok" THEN c2 ELSE BinaryCheck(c1, c2)))

\* AParser.ReadString after the scan: CheckUp (the error list is empty),
\* then MainStatement from the first token
ParseProgram == MainStatement(NewCursor(current_iterator, Count))

(***************************************************************************)
(* Source texts                                                            *)
(***************************************************************************)
MaxSourceLen == 2

MaxTokens == 12

MaxScanIterations == 200

MaxStatements == 2

MaxElseIf == 2

MaxCalls == 6

\* the characters of the enumerated source texts
ScanAlphabet ==
    {"a", "f", "1", ".", "!", "=", "+", "-", "*", "/", ">", "<", "&", "|",
     " ", "\n", "\r", "\"", "\\", "#"}

RECURSIVE Strings(_, _)
Strings(alphabet, n) ==
    IF n = 0 THEN {<<>>}
    ELSE LET shorter == Strings(alphabet, n - 1) IN
         shorter \cup {Append(s, c) : s \in {t \in shorter : Len(t) = n - 1}, c \in alphabet}

\* longer texts of the scanner
Src_TwoBadNumbers == <<"1", ".", "2", ".", "3", " ", "1", ".", "2", ".", "3">>

Src_OneBadNumber == <<"1", ".", "2", ".", "3">>

Src_ThreeDots == <<"1", ".", "2", ".", "3", ".", "4">>

Src_Decimal == <<"3", ".", "1", "4">>

Src_format == <<"f", "o", "r", "m", "a", "t">>

Src_iffy == <<"i", "f", "f", "y">>

Src_variable == <<"v", "a", "r", "i", "a", "b", "l", "e">>

Src_newton == <<"n", "e", "w", "t", "o", "n">>

Src_truest == <<"t", "r", "u", "e", "s", "t">>

Src_foo == <<"f", "o", "o">>

Src_my_var == <<"m", "y", "_", "v", "a", "r">>

Src_NotEqual == <<"a", " ", "!", "=", " ", "b">>

Src_NotA == <<"!", "a">>

Src_Sum == <<"a", " ", "+", " ", "b">>

Src_SumEnd == <<"a", " ", "=", " ", "b", " ", "+">>

Src_Keywords == <<"i", "f", " ", "e", "l", "s", "e", " ", "e", "l", "s", "e", "i", "f">>

\* two lines, the first one ended by \n, by \r and by \r\n
Src_LinesLF == <<"a", "\n", "f">>

Src_LinesCR == <<"a", "\r", "f">>

Src_LinesCRLF == <<"a", "\r", "\n", "f">>

\* two words on each of two lines
Src_WordsLF == <<"a", "f", " ", "a", "\n", " ", "f", " ", "a", "a">>

Src_WordsCRLF == <<"a", "f", " ", "a", "\r", "\n", " ", "f", " ", "a", "a">>

ScanSources ==
    Strings(ScanAlphabet, MaxSourceLen) \cup
    {Src_TwoBadNumbers, Src_OneBadNumber, Src_ThreeDots, Src_Decimal, Src_format,
     Src_iffy, Src_variable, Src_newton, Src_truest, Src_foo, Src_my_var,
     Src_NotEqual, Src_NotA, Src_Sum, Src_SumEnd, Src_Keywords,
     Src_LinesLF, Src_LinesCR, Src_LinesCRLF, Src_WordsLF, Src_WordsCRLF}

(***************************************************************************)
(* aparser.AST_Number, a wrapper of *big.Rat.  A rational is the record    *)
(* [num, den] that big.Rat keeps normalized; an AST_Number object is its   *)
(* index in the sequence of the objects made so far, so that two           *)
(* references to one object are told from two objects of one value.  An    *)
(* operation answers [numbers, ret, panic]: the objects after the call,    *)
(* the object returned (0 when the call panics), and whether it panics.    *)
(***************************************************************************)
RECURSIVE GCD(_, _)
GCD(m, n) == IF n = 0 THEN m ELSE GCD(n, m % n)

Magnitude(n) == IF n < 0 THEN -n ELSE n

\* big.Rat.norm: lowest terms, the sign carried by the numerator
Rat_norm(num, den) ==
    LET g == GCD(Magnitude(num), Magnitude(den))
        neg == (num < 0) # (den < 0)
    IN  [num |-> (IF neg THEN -1 ELSE 1) * (Magnitude(num) \div g),
         den |-> Magnitude(den) \div g]

\* big.NewRat(a, b)
NewRat(a, b) == Rat_norm(a, b)

\* z.Add(x, y)
Rat_Add(x, y) == Rat_norm(x.num * y.den + y.num * x.den, x.den * y.den)

\* z.Sub(x, y)
Rat_Sub(x, y) == Rat_norm(x.num * y.den - y.num * x.den, x.den * y.den)

\* z.Mul(x, y)
Rat_Mul(x, y) == Rat_norm(x.num * y.num, x.den * y.den)

\* z.Quo(x, y), y not zero (a zero y panics, see AST_Number_Div)
Rat_Quo(x, y) == Rat_norm(x.num * y.den, x.den * y.num)

\* z.Abs(x)
Rat_Abs(x) == [num |-> Magnitude(x.num), den |-> x.den]

DigitValue(c) ==
    CASE c = "0" -> 0 [] c = "1" -> 1 [] c = "2" -> 2 [] c = "3" -> 3 [] c = "4" -> 4
      [] c = "5" -> 5 [] c = "6" -> 6 [] c = "7" -> 7 [] c = "8" -> 8 [] c = "9" -> 9

\* the number a run of decimal digits writes
RECURSIVE DigitsValue(_)
DigitsValue(ds) ==
    IF ds = <<>> THEN 0
    ELSE 10 * DigitsValue(SubSeq(ds, 1, Len(ds) - 1)) + DigitValue(ds[Len(ds)])

RECURSIVE Pow10(_)
Pow10(n) == IF n = 0 THEN 1 ELSE 10 * Pow10(n - 1)

\* where the decimal point of a literal is (0: it has none)
DotAt(text) ==
    IF \E k \in 1..Len(text) : text[k] = "." THEN CHOOSE k \in 1..Len(text) : text[k] = "."
    ELSE 0

\* z.SetString(s) for a decimal literal, digits with at most one point
\* among them: the digits without the point, over ten to the number of
\* digits after it
Rat_SetString(text) ==
    LET dot == DotAt(text)
        mantissa == IF dot = 0 THEN text
                    ELSE SubSeq(text, 1, dot - 1) \o SubSeq(text, dot + 1, Len(text))
        scale == IF dot = 0 THEN 0 ELSE Len(text) - dot
    IN  Rat_norm(DigitsValue(mantissa), Pow10(scale))

Returned(h, s) == [numbers |-> h, ret |-> s, panic |-> FALSE]

Panicked(h) == [numbers |-> h, ret |-> 0, panic |-> TRUE]

\* func (s *AST_Number) Add(a, b): s.Rat.Add(a.Rat, b.Rat); return s
AST_Number_Add(h, s, a, b) == Returned([h EXCEPT ![s] = Rat_Add(h[a], h[b])], s)

\* func (s *AST_Number) Sub(a, b): s.Rat.Sub(a.Rat, b.Rat); return s
AST_Number_Sub(h, s, a, b) == Returned([h EXCEPT ![s] = Rat_Sub(h[a], h[b])], s)

\* Mul as a function of values: it makes a new object for the product
AST_Number_Mul_Fresh(h, s, a, b) == Returned(Append(h, Rat_Mul(h[a], h[b])), Len(h) + 1)

\* func (s *AST_Number) Mul(a, b): s.Rat.Mul(a.Rat, b.Rat); return s
AST_Number_Mul(h, s, a, b) == Returned([h EXCEPT ![s] = Rat_Mul(h[a], h[b])], s)

\* Div that keeps the whole part of the quotient only
AST_Number_Div_Truncated(h, s, a, b) ==
    IF h[b].num = 0 THEN Panicked(h)
    ELSE Returned([h EXCEPT ![s] =
                      Rat_norm(Magnitude(h[a].num * h[b].den)
                                   \div Magnitude(h[a].den * h[b].num), 1)], s)

\* func (s *AST_Number) Div(a, b): s.Rat.Quo(a.Rat, b.Rat); return s.
\* Quo panics on a zero divisor before it writes anything.
AST_Number_Div(h, s, a, b) ==
    IF h[b].num = 0 THEN Panicked(h)
    ELSE Returned([h EXCEPT ![s] = Rat_Quo(h[a], h[b])], s)

\* func (s *AST_Number) Abs(a, b): s.Rat.Abs(a.Rat); return s
AST_Number_Abs(h, s, a, b) == Returned([h EXCEPT ![s] = Rat_Abs(h[a])], s)

\* func (s *AST_Number) Mod(a, b): return s
AST_Number_Mod(h, s, a, b) == Returned(h, s)

\* func (s *AST_Number) Init(data): s.Rat = big.NewRat(0, 1); s.Rat.SetString(data)
AST_Number_Init(h, s, text) ==
    Returned([[h EXCEPT ![s] = NewRat(0, 1)] EXCEPT ![s] = Rat_SetString(text)], s)

\* func New_ASTNumber(data): new(AST_Number).Init(data)
New_ASTNumber(h, text) == AST_Number_Init(Append(h, NewRat(0, 1)), Len(h) + 1, text)

\* no call made yet
NoArith ==
    [op |-> "none", s |-> 0, a |-> 0, b |-> 0, va |-> NewRat(0, 1), vb |-> NewRat(0, 1),
     ret |-> 0, panic |-> FALSE, n |-> 0]

(***************************************************************************)
(* The scan as a state machine                                             *)
(***************************************************************************)
ScanState ==
    [data |-> data, i |-> i, token_list |-> token_list, Error_list |-> Error_list,
     Line |-> Line, Column |-> Column, status |-> pc]

SetScan(r) ==
    /\ data' = r.data
    /\ i' = r.i
    /\ token_list' = r.token_list
    /\ Error_list' = r.Error_list
    /\ Line' = r.Line
    /\ Column' = r.Column
    /\ pc' = r.status
    /\ current_iterator' = IF r.status = "ready" THEN 1 ELSE 0

\* atoken.New() / aparser.New(), and the text handed to ReadString
InitWith(sources) ==
    /\ data \in sources
    /\ i = 0
    /\ token_list = <<>>
    /\ Error_list = <<>>
    /\ Line = 1
    /\ Column = 1
    /\ current_iterator = 0
    /\ Count = 1
    /\ Error_List = <<>>
    /\ pc = "scan"
    /\ trace = <<>>
    /\ hist = <<>>
    /\ ast_basic_exp = Nil
    /\ calls = <<>>
    /\ check_type = NoCheck
    /\ literals = <<>>
    /\ numbers = <<>>
    /\ arith = NoArith

\* one iteration of the loop of ATokenList.ReadString, i < len(data)
ScanStep ==
    /\ pc = "scan"
    /\ i < Len(data)
    /\ Len(token_list) < MaxTokens
    /\ SetScan(ScanIteration(ScanState))
    /\ UNCHANGED <<Count, Error_List, trace, hist, ast_basic_exp, check_type, calls>>
    /\ UNCHANGED <<literals, numbers, arith>>

\* the last iteration, i >= len(data), and the code after the loop
ScanEnd ==
    /\ pc = "scan"
    /\ i >= Len(data)
    /\ SetScan(ScanFinish(ScanState))
    /\ UNCHANGED <<Count, Error_List, trace, hist, ast_basic_exp, check_type, calls>>
    /\ UNCHANGED <<literals, numbers, arith>>

InitScan == InitWith(ScanSources)

NextScan == ScanStep \/ ScanEnd

SpecScan == InitScan /\ [][NextScan]_vars

(***************************************************************************)
(* Programs handed to AParser.ReadString: up to MaxStatements statements   *)
(* separated by line breaks, with or without a line break after the last   *)
(***************************************************************************)
Txt_Call == <<"f", "o", "o", "(", ")">>

Txt_CallArgs == <<"f", "o", "o", "(", "1", ",", " ", "b", "a", "r", ")">>

Txt_Assign == <<"f", "o", "o", " ", "=", " ", "1">>

Txt_MultiAssign == <<"f", "o", "o", ",", " ", "b", "a", "r", " ", "=", " ", "1", ",", " ", "2">>

Txt_VarAssign == <<"v", "a", "r", " ", "a", " ", "=", " ", "1">>

Txt_WordPlus == <<"f", "o", "o", " ", "+", " ", "1">>

\* statements with a mistake in them
Txt_WordAlone == <<"f", "o", "o">>

Txt_NumberStart == <<"1", " ", "+", " ", "1">>

Txt_BadAssign == <<"f", "o", "o", " ", "=", " ", ")">>

Txt_BadCall == <<"f", "o", "o", "(", "1", ";">>

Txt_LexBad == <<"f", "o", "o", " ", "=", " ", "#">>

Txt_LexBadNumber == <<"f", "o", "o", " ", "=", " ", "1", ".", "2", ".", "3", ".", "4">>

Txt_ForHead == <<"f", "o", "r", " ", "(">>

Txt_ForInitClause == <<"a", " ", "=", " ", "0">>

Txt_ForCondClause == <<"a", " ", "<", " ", "9">>

Txt_ForStepClause == <<"a", " ", "=", " ", "a", " ", "+", " ", "1">>

Txt_Semi == <<";">>

Txt_CloseParen == <<")", " ">>

Txt_EmptyBlock == <<"{", " ", "}">>

Txt_IfHead == <<"i", "f", " ", "(", "a", " ", ">", " ", "b", ")", " ">>

Txt_ElseIfPart == <<" ", "e", "l", "s", "e", "i", "f", " ", "(", "a", " ", ">", " ", "b", ")", " ", "{", " ", "}">>

Txt_ElsePart == <<" ", "e", "l", "s", "e", " ", "{", " ", "}">>

Txt_BlockOpen == <<"{", " ">>

Txt_BlockClose == <<" ", "}">>

Txt_NL == <<"\n">>

\* for ( init ; cond ; step ) block, each clause present or empty
ForLoopWith(init, cond, step, block) ==
    Txt_ForHead \o (IF init THEN Txt_ForInitClause ELSE <<>>) \o Txt_Semi
                \o (IF cond THEN Txt_ForCondClause ELSE <<>>) \o Txt_Semi
                \o (IF step THEN Txt_ForStepClause ELSE <<>>) \o Txt_CloseParen
                \o block

ForLoop(init, cond, step) == ForLoopWith(init, cond, step, Txt_EmptyBlock)

ForLoops == {ForLoop(a, b, c) : a \in BOOLEAN, b \in BOOLEAN, c \in BOOLEAN}

\* if (a > b) { }, then n elseif parts, then an else part or none
RECURSIVE ElseIfParts(_)
ElseIfParts(n) == IF n = 0 THEN <<>> ELSE Txt_ElseIfPart \o ElseIfParts(n - 1)

IfChain(n, withElse) ==
    Txt_IfHead \o Txt_EmptyBlock \o ElseIfParts(n)
               \o (IF withElse THEN Txt_ElsePart ELSE <<>>)

IfChains == {IfChain(n, e) : n \in 0..MaxElseIf, e \in BOOLEAN}

\* for (;;) { stmt }
LoopAround(stmt) ==
    ForLoopWith(FALSE, FALSE, FALSE, Txt_BlockOpen \o stmt \o Txt_BlockClose)

\* func f(
Txt_FuncHead == <<"f", "u", "n", "c", " ", "f", "(">>

\* var a -> int
Txt_Param == <<"v", "a", "r", " ", "a", " ", "-", ">", " ", "i", "n", "t">>

Txt_CommaSpace == <<",", " ">>

\* ->
Txt_Arrow == <<"-", ">", " ">>

Txt_TypeInt == <<"i", "n", "t">>

Txt_Space == <<" ">>

\* n parameters, or n type names, with commas between them
RECURSIVE Listed(_, _)
Listed(item, n) ==
    IF n = 0 THEN <<>>
    ELSE IF n = 1 THEN item
    ELSE Listed(item, n - 1) \o Txt_CommaSpace \o item

\* func f(params) -> types { }: n parameters, the arrow or none, k type
\* names, and the block after the return annotation or before it
FuncDecl(n, arrow, k, blockFirst) ==
    Txt_FuncHead \o Listed(Txt_Param, n) \o Txt_CloseParen
        \o (IF blockFirst THEN Txt_EmptyBlock \o Txt_Space ELSE <<>>)
        \o (IF arrow THEN Txt_Arrow ELSE <<>>)
        \o Listed(Txt_TypeInt, k)
        \o (IF blockFirst THEN <<>> ELSE Txt_Space \o Txt_EmptyBlock)

FuncDecls ==
    {FuncDecl(n, TRUE, k, FALSE) : n \in 0..2, k \in 0..2}
        \cup {FuncDecl(0, FALSE, 0, FALSE), FuncDecl(1, FALSE, 1, FALSE),
              FuncDecl(0, TRUE, 1, TRUE)}

\* var a -> int
Txt_VarType == <<"v", "a", "r", " ", "a", " ", "-", ">", " ", "i", "n", "t">>

\* var a, b = f()
Txt_VarMulti == <<"v", "a", "r", " ", "a", ",", " ", "b", " ", "=", " ", "f", "(", ")">>

\* var a
Txt_VarAlone == <<"v", "a", "r", " ", "a">>

\* string
Txt_TypeString == <<"s", "t", "r", "i", "n", "g">>

\* number
Txt_TypeNumber == <<"n", "u", "m", "b", "e", "r">>

\* var a -> 
Txt_VarArrow == <<"v", "a", "r", " ", "a", " ", "-", ">", " ">>

\* the built-in type names the inputs use
TypeNames == {Txt_TypeInt, Txt_TypeString, Txt_TypeNumber}

\* var a -> T
VarOfType(T) == Txt_VarArrow \o T

\* func f(var a -> T) -> int { }
FuncWithParamOfType(T) ==
    Txt_FuncHead \o Txt_VarArrow \o T \o Txt_CloseParen \o Txt_Arrow \o Txt_TypeInt
        \o Txt_Space \o Txt_EmptyBlock

\* func f() -> T { }
FuncReturning(T) ==
    Txt_FuncHead \o Txt_CloseParen \o Txt_Arrow \o T \o Txt_Space \o Txt_EmptyBlock

TypeUses ==
    {VarOfType(T) : T \in TypeNames} \cup {FuncWithParamOfType(T) : T \in TypeNames}
        \cup {FuncReturning(T) : T \in TypeNames}

\* a, ..., a = 1, ..., 1 with n names and n expressions
AssignList(n) ==
    Listed(<<"a">>, n) \o <<" ", "=", " ">> \o Listed(<<"1">>, n)

AssignLists == {AssignList(n) : n \in 1..3}

\* if (
Txt_IfOpen == <<"i", "f", " ", "(">>

\* a > b
Cond_Greater == <<"a", " ", ">", " ", "b">>

\* a <= b
Cond_LessEqual == <<"a", " ", "<", "=", " ", "b">>

\* a + b > c
Cond_Sum == <<"a", " ", "+", " ", "b", " ", ">", " ", "c">>

\* (a + b) > c
Cond_ParenLeft == <<"(", "a", " ", "+", " ", "b", ")", " ", ">", " ", "c">>

\* a > (b + c)
Cond_ParenRight == <<"a", " ", ">", " ", "(", "b", " ", "+", " ", "c", ")">>

\* a > b && a < b || a >= b
Cond_Joined == <<"a", " ", ">", " ", "b", " ", "&", "&", " ", "a", " ", "<", " ", "b", " ", "|", "|", " ", "a", " ", ">", "=", " ", "b">>

\* a == b
Cond_Equal == <<"a", " ", "=", "=", " ", "b">>

\* a
Cond_Bare == <<"a">>

\* a > b == c
Cond_EqualAfter == <<"a", " ", ">", " ", "b", " ", "=", "=", " ", "c">>

\* if (cond) { }
IfWith(cond) == Txt_IfOpen \o cond \o Txt_CloseParen \o Txt_EmptyBlock

\* conditions made of comparison factors E1 op E2, op one of > < >= <=
ComparisonConds ==
    {Cond_Greater, Cond_LessEqual, Cond_Sum, Cond_ParenLeft, Cond_ParenRight, Cond_Joined}

\* conditions whose left expression is followed by no comparison operator
NonComparisonConds == {Cond_Equal, Cond_Bare, Cond_EqualAfter}

\* ( )
Txt_Parens == <<"(", " ", ")">>

\* break, continue, return 1
Txt_Break == <<"b", "r", "e", "a", "k">>

Txt_Continue == <<"c", "o", "n", "t", "i", "n", "u", "e">>

Txt_Return == <<"r", "e", "t", "u", "r", "n", " ", "1">>

\* the statements of a block body, each one followed by a line break
RECURSIVE Lines(_)
Lines(ss) == IF ss = <<>> THEN <<>> ELSE Head(ss) \o Txt_NL \o Lines(Tail(ss))

\* { then a line break, the statements on lines of their own, then }
BlockOf(ss) == <<"{">> \o Txt_NL \o Lines(ss) \o <<"}">>

\* for (;;) block and if (a > b) block
LoopOver(ss) == ForLoopWith(FALSE, FALSE, FALSE, BlockOf(ss))

IfOver(ss) == Txt_IfHead \o BlockOf(ss)

\* well-formed loops whose body holds no if statement
PlainBlocks ==
    {LoopOver(<<Txt_Call>>), LoopOver(<<Txt_VarAssign, Txt_Assign>>),
     LoopOver(<<LoopOver(<<Txt_Break>>), Txt_Continue>>), LoopOver(<<Txt_Return>>)}

\* well-formed loops whose body holds an if statement without elseif and else
BlocksWithIf ==
    {LoopOver(<<IfOver(<<Txt_Call>>)>>), LoopOver(<<IfOver(<<>>), Txt_Call>>)}

NestedBlocks == PlainBlocks \cup BlocksWithIf

\* a = 1 b = 2: two statements with no separator between them
Txt_TwoAssign == <<"a", " ", "=", " ", "1", " ", "b", " ", "=", " ", "2">>

\* foo() }: a stray closing brace after a complete statement
Txt_CallBrace == <<"f", "o", "o", "(", ")", " ", "}">>

\* }: a stray closing brace where a statement starts
Txt_Brace == <<"}">>

Statements ==
    {<<>>, Txt_Call, Txt_CallArgs, Txt_Assign, Txt_MultiAssign, Txt_VarAssign,
     Txt_WordPlus, Txt_WordAlone, Txt_NumberStart, Txt_BadAssign, Txt_BadCall,
     Txt_LexBad, Txt_LexBadNumber}
    \cup ForLoops \cup IfChains
    \cup {LoopAround(s) : s \in {Txt_Call, Txt_Assign, IfChain(0, FALSE)}}
    \cup FuncDecls
    \cup {Txt_VarType, Txt_VarMulti, Txt_VarAlone}
    \cup TypeUses
    \cup AssignLists
    \cup {Txt_EmptyBlock, Txt_Parens}
    \cup {IfWith(c) : c \in ComparisonConds \cup NonComparisonConds}
    \cup NestedBlocks
    \cup {Txt_TwoAssign, Txt_CallBrace, Txt_Brace}

\* the statements that follow the first one of a program
Followers == {<<>>, Txt_Call, Txt_MultiAssign, IfChain(0, FALSE), Txt_BadAssign}

\* n statements, a line break between two of them
RECURSIVE StatementLists(_)
StatementLists(n) ==
    IF n = 1 THEN Statements
    ELSE {p \o Txt_NL \o s : p \in StatementLists(n - 1), s \in Followers}

Programs ==
    LET lists == UNION {StatementLists(n) : n \in 1..MaxStatements} IN
    lists \cup {p \o Txt_NL : p \in lists}

(***************************************************************************)
(* AParser.ReadString as a state machine: the scan, then the parse         *)
(***************************************************************************)
\* s.AToken.ReadString(str): the whole scan
ReadStringScan ==
    /\ pc = "scan"
    /\ SetScan(Scan(ScanState, MaxScanIterations))
    /\ UNCHANGED <<Count, Error_List, trace, hist, ast_basic_exp, check_type, calls>>
    /\ UNCHANGED <<literals, numbers, arith>>

\* s.CheckUp(); s.MainStatement()
Parse ==
    /\ pc = "ready"
    /\ LET r == ParseProgram IN
       /\ calls' = r.calls
       /\ current_iterator' = r.cur
       /\ Count' = r.Count
       /\ Error_List' = r.errs
       /\ trace' = r.trace
       /\ pc' = CASE r.status = "run" -> "parsed"
                  [] r.status = "exit" -> "parse_exit"
                  [] r.status = "panic" -> "parse_panic"
    /\ UNCHANGED <<data, i, token_list, Error_list, Line, Column, hist,
                   ast_basic_exp, check_type>>
    /\ UNCHANGED <<literals, numbers, arith>>

Init == InitWith(Programs)

Next == ReadStringScan \/ Parse

Spec == Init /\ [][Next]_vars

(***************************************************************************)
(* The token cursor used by a client: after the scan, any GetToken,        *)
(* BackToken and IsEnd calls, at most MaxCalls of them                     *)
(***************************************************************************)
CursorSources ==
    {<<>>, <<"a">>, Txt_Call, Txt_Assign, Txt_MultiAssign, Txt_Assign \o Txt_NL}

ClientCall(op, r) ==
    /\ current_iterator' = r.cur
    /\ Count' = r.Count
    /\ hist' = Append(hist, [op |-> op, from |-> current_iterator, to |-> r.cur,
                             ret |-> IF op = "GetToken" THEN r.tok
                                     ELSE IF op = "BackToken" THEN r.back
                                     ELSE IF r.ret THEN 1 ELSE 0,
                             panic |-> ~Ok(r)])
    /\ pc' = IF Ok(r) THEN "ready" ELSE "cursor_panic"
    /\ UNCHANGED <<data, i, token_list, Error_list, Line, Column, Error_List, trace,
                   ast_basic_exp, check_type, calls>>
    /\ UNCHANGED <<literals, numbers, arith>>

ClientGetToken ==
    /\ pc = "ready"
    /\ Len(hist) < MaxCalls
    /\ ClientCall("GetToken", GetToken(NewCursor(current_iterator, Count)))

ClientBackToken ==
    /\ pc = "ready"
    /\ Len(hist) < MaxCalls
    /\ ClientCall("BackToken", BackToken(NewCursor(current_iterator, Count)))

ClientIsEnd ==
    /\ pc = "ready"
    /\ Len(hist) < MaxCalls
    /\ ClientCall("IsEnd", IsEnd(NewCursor(current_iterator, Count)))

InitCursor == InitWith(CursorSources)

NextCursor == ReadStringScan \/ ClientGetToken \/ ClientBackToken \/ ClientIsEnd

SpecCursor == InitCursor /\ [][NextCursor]_vars

(***************************************************************************)
(* AParser.ReadBasicExpression followed by CheckType on the tree returned, *)
(* as Test_ReadExpression does                                             *)
(***************************************************************************)
MaxOperands == 3

Txt_One == <<"1">>

Txt_True == <<"t", "r", "u", "e">>

Txt_Var == <<"x">>

Operands == {Txt_One, Txt_True, Txt_Var}

Operators == {<<"+">>, <<"-">>, <<"*">>, <<"~">>}

MultiplicativeChars == {"*", "/", "^", "%", "~"}

\* n operands with an operator between two of them
RECURSIVE Chains(_)
Chains(n) ==
    IF n = 1 THEN Operands
    ELSE {c \o op \o a : c \in Chains(n - 1), op \in Operators, a \in Operands}

InParens(e) == <<"(">> \o e \o <<")">>

\* a parenthesized chain of two operands on either side of an operator, and
\* operands inside two pairs of parentheses
ParenForms ==
    {InParens(c) \o op \o a : c \in Chains(2), op \in Operators, a \in Operands}
    \cup {a \o op \o InParens(c) : c \in Chains(2), op \in Operators, a \in Operands}
    \cup {InParens(InParens(a)) \o op \o InParens(InParens(b)) :
             a \in Operands, b \in Operands, op \in Operators}

\* a + b op c for each operator of the multiplicative level
PrecedenceText(op) == <<"1", " ", "+", " ", "2", " ", op, " ", "3">>

Txt_Random == <<"1", " ", "+", " ", "2", " ", "~", " ", "1", "0">>

\* the expression of Test_ReadExpression
Txt_TestExpression ==
    <<"1", "*", "2", "+", "t", "r", "u", "e", "+", "4", "+", "(", "5", "+",
      "f", "a", "l", "s", "e", ")">>

Txt_NumberPlusString == <<"1", " ", "+", " ", "\"", "x", "\"">>

Txt_StringPlusNumber == <<"\"", "x", "\"", " ", "+", " ", "1">>

\* f(a1, ..., an) with n = 0, 1, 2 arguments, alone and as an operand
CallText(n) == <<"f", "(">> \o Listed(Txt_One, n) \o <<")">>

CallExpressions == {CallText(n) : n \in 0..2} \cup {Txt_One \o <<"+">> \o CallText(2)}

\* chains with an increment, a decrement and a call as operands
Txt_IncrementPlus == <<"x", "+", "+", " ", "+", " ", "1">>

Txt_DecrementBetween == <<"1", " ", "+", " ", "x", "-", "-", " ", "+", " ", "t", "r", "u", "e">>

Txt_CallBetween == <<"t", "r", "u", "e", " ", "+", " ", "f", "(", ")", " ", "+", " ", "1">>

TaggedOperandChains == {Txt_IncrementPlus, Txt_DecrementBetween, Txt_CallBetween}

Expressions ==
    UNION {Chains(n) : n \in 1..MaxOperands} \cup ParenForms
    \cup {PrecedenceText(op) : op \in MultiplicativeChars}
    \cup {Txt_Random, Txt_TestExpression, Txt_NumberPlusString, Txt_StringPlusNumber}
    \cup CallExpressions
    \cup TaggedOperandChains

\* s.AToken.ReadString(str); s.CheckUp(); return s.Arithmetic_Expression()
ReadBasicExpression ==
    /\ pc = "ready"
    /\ LET r == Arithmetic_Expression(NewCursor(current_iterator, Count)) IN
       /\ calls' = r.calls
       /\ current_iterator' = r.cur
       /\ Count' = r.Count
       /\ Error_List' = r.errs
       /\ trace' = r.trace
       /\ ast_basic_exp' = IF r.status = "run" THEN r.node ELSE Nil
       /\ pc' = CASE r.status = "run" -> "parsed"
                  [] r.status = "exit" -> "parse_exit"
                  [] r.status = "panic" -> "parse_panic"
    /\ UNCHANGED <<data, i, token_list, Error_list, Line, Column, hist, check_type>>
    /\ UNCHANGED <<literals, numbers, arith>>

\* ast_basic_exp.CheckType()
CheckType ==
    /\ pc = "parsed"
    /\ check_type' = Expression_CheckType(ast_basic_exp)
    /\ pc' = CASE check_type'.status = "ok" -> "checked"
               [] check_type'.status = "exit" -> "check_exit"
               [] check_type'.status = "panic" -> "check_panic"
    /\ UNCHANGED <<data, i, token_list, Error_list, Line, Column, current_iterator,
                   Count, Error_List, trace, hist, ast_basic_exp, calls>>
    /\ UNCHANGED <<literals, numbers, arith>>

InitExpr == InitWith(Expressions)

NextExpr == ReadStringScan \/ ReadBasicExpression \/ CheckType

SpecExpr == InitExpr /\ [][NextExpr]_vars

(***************************************************************************)
(* Properties                                                              *)
(***************************************************************************)
ScanOver == pc \in {"ready", "exit"}

ParseOver == pc \in {"parsed", "parse_exit", "parse_panic"}

\* the last 2k calls are k GetToken calls and then k BackToken calls
GetsThenBacks(k) ==
    /\ Len(hist) >= 2 * k
    /\ \A j \in 1..k : hist[Len(hist) - 2 * k + j].op = "GetToken"
    /\ \A j \in 1..k : hist[Len(hist) - k + j].op = "BackToken"

\* C1: k GetToken calls followed by k BackToken calls, from any position p
\* on a token (the last token included), leave the cursor at p
C1_ReplayDeterminism ==
    \A k \in 1..MaxCalls :
        (GetsThenBacks(k) /\ hist[Len(hist) - 2 * k + 1].from # 0)
            => /\ pc = "ready"
               /\ current_iterator = hist[Len(hist) - 2 * k + 1].from

\* C2: a text that scans without lex errors ends ReadString either by a
\* normal return with no ParseError or by one ParseError and the halt;
\* never by a nil token or a cursor off the ends of the list
C2_TwoOutcomes ==
    ParseOver => \/ pc = "parsed" /\ Error_List = <<>>
                 \/ pc = "parse_exit" /\ Len(Error_List) = 1

\* C3: every iteration of the scan loop advances the scan index
C3_IndexAdvances == [][(pc = "scan" /\ i < Len(data)) => i' > i]_vars

\* the rule entered at trace position k saw a WORD followed by a token of
\* one of these types
WordThen(k, types) ==
    /\ trace[k][1] \in {"Statement", "BlockStatement_Factor"}
    /\ trace[k][2] \in 1..(Len(token_list) - 1)
    /\ token_list[trace[k][2]].Type = WORD
    /\ token_list[trace[k][2] + 1].Type \in types

\* C4: a statement that starts with an identifier followed by '(' is
\* parsed by CallFuncStatement, one followed by '=' or ',' by
\* AssigmentStatement, and the delegated rule starts on the identifier
C4_WordDispatch ==
    \A k \in 1..Len(trace) :
        /\ WordThen(k, {LP}) =>
              k < Len(trace) /\ trace[k + 1] = <<"CallFuncStatement", trace[k][2]>>
        /\ WordThen(k, {ASSIGMENT, COMMA}) =>
              k < Len(trace) /\ trace[k + 1] = <<"AssigmentStatement", trace[k][2]>>

\* C4 witness: foo, bar = 1, 2 was dispatched to AssigmentStatement, and a
\* call inside a block to CallFuncStatement
C4_Witness ==
    /\ pc = "parsed"
    /\ \E k \in 1..Len(trace) :
          trace[k][1] = "BlockStatement_Factor" /\ WordThen(k, {LP})
    /\ \E k \in 1..Len(trace) :
          trace[k][1] = "Statement" /\ WordThen(k, {COMMA})

RulesEntered(rule) == {k \in 1..Len(trace) : trace[k][1] = rule}

\* C5: the complete source of a for loop, whichever clauses are empty,
\* parses with no ParseError, and with no condition parsed when it is empty
C5_ForLoopsParse ==
    \A a \in BOOLEAN, b \in BOOLEAN, c \in BOOLEAN :
        (ParseOver /\ data = ForLoop(a, b, c)) =>
            /\ pc = "parsed"
            /\ Error_List = <<>>
            /\ (~b => RulesEntered("Boolean_Expression") = {})

\* C6: an if chain with n elseif parts and an optional else is parsed as a
\* whole by the one IFStatement: every one of its blocks is parsed
C6_IfChainWhole ==
    \A n \in 0..MaxElseIf, e \in BOOLEAN :
        (ParseOver /\ data = IfChain(n, e) \o Txt_NL) =>
            /\ pc = "parsed"
            /\ Cardinality(RulesEntered("IFStatement")) = 1
            /\ Cardinality(RulesEntered("BlockStatement")) = 1 + n + (IF e THEN 1 ELSE 0)

LexErrors(info) == {k \in 1..Len(Error_list) : Error_list[k].error_info = info}

\* C7: a second '.' in a numeric literal is an "illegal number" LexError,
\* so 1.2.3 yields one and 1.2.3 1.2.3 yields two
C7_SecondDotIsError ==
    /\ (ScanOver /\ data = Src_OneBadNumber) =>
           Cardinality(LexErrors("illegal number")) = 1
    /\ (ScanOver /\ data = Src_TwoBadNumbers) =>
           Cardinality(LexErrors("illegal number")) = 2

\* the runs of symbol characters that are no keyword
IdentifierRuns ==
    {Src_format, Src_iffy, Src_variable, Src_newton, Src_truest, Src_foo, Src_my_var}

\* C8: a run of symbol characters that is no keyword is one WORD token
\* whose text is the whole run
C8_OneIdentifier ==
    (ScanOver /\ data \in IdentifierRuns) =>
        /\ Len(token_list) = 2
        /\ token_list[1].Type = WORD
        /\ token_list[1].Value = data

\* C9: each '!' yields one token, NOEQ when '=' follows it and NOT otherwise
C9_BangResolved ==
    LET bangs  == {k \in 1..Len(data) : data[k] = "!"}
        tokens == {k \in 1..Len(token_list) : token_list[k].Type \in {NOT, NOEQ}}
    IN  ("\"" \notin {data[k] : k \in 1..Len(data)}) =>
            /\ Cardinality(tokens) <= Cardinality(bangs)
            /\ (\A k \in bangs : k < Len(data) /\ data[k + 1] = "=") =>
                   \A k \in tokens : token_list[k].Type = NOEQ

OperatorChars == {"+", "-", "*", "/", ">", "<", "=", "&", "|"}

\* C10: an operator character that is the last character of the text (after
\* identifiers, digits and blanks only) yields its one-character token,
\* just before the terminal End token
C10_OperatorAtEnd ==
    (/\ ScanOver
     /\ Len(data) >= 1
     /\ data[Len(data)] \in OperatorChars
     /\ \A k \in 1..(Len(data) - 1) : data[k] \in {"a", "1", " "})
        => /\ Len(token_list) >= 2
           /\ token_list[Len(token_list) - 1].Type = OperatorCases(data[Len(data)]).single

\* the line breaks of a text from index k on: a \r\n pair counts once
RECURSIVE LineBreaks(_, _)
LineBreaks(d, k) ==
    IF k > Len(d) THEN 0
    ELSE IF d[k] = "\r" /\ k < Len(d) /\ d[k + 1] = "\n" THEN 1 + LineBreaks(d, k + 2)
    ELSE IF d[k] \in {"\r", "\n"} THEN 1 + LineBreaks(d, k + 1)
    ELSE LineBreaks(d, k + 1)

\* the statement-separator tokens: type EOF, the terminal End marker apart
SeparatorTokens ==
    {k \in 1..Len(token_list) :
        token_list[k].Type = EOF /\ token_list[k].Value # <<"E", "n", "d">>}

NoQuote(d) == \A k \in 1..Len(d) : d[k] # "\""

\* C11: outside string literals every \r\n pair, every lone \r and every
\* lone \n (the last character of the text included) yields exactly one
\* separator token, and every token's line is 1 plus the number of
\* separator tokens before it
C11_OneSeparatorPerLineBreak ==
    (ScanOver /\ NoQuote(data)) =>
        /\ Cardinality(SeparatorTokens) = LineBreaks(data, 1)
        /\ \A k \in 1..Len(token_list) :
              token_list[k].Line = 1 + Cardinality({j \in SeparatorTokens : j < k})

\* ReadBasicExpression has returned
ExpressionOver == pc \in {"parsed", "parse_exit", "parse_panic", "checked", "check_exit", "check_panic"}

ExpressionParsed == pc \in {"parsed", "checked", "check_exit", "check_panic"}

\* a term that is the single number factor text
NumberTerm(term, text) ==
    /\ term.Type = 0
    /\ term.Value_Term = Nil
    /\ term.Value_Factor.Type = AST_NUMBER
    /\ term.Value_Factor.Value_Number = text

\* the AST operator of a character of the multiplicative level
OperatorOf(ch) ==
    CASE ch = "*" -> AST_MUL
      [] ch = "/" -> AST_DIV
      [] ch = "^" -> AST_POWER
      [] ch = "%" -> AST_MOD
      [] ch = "~" -> AST_RAND

\* the tree of a + (b op c): an add node whose term is the factor a and
\* whose tail holds the one term b op c
SumOfProduct(e, a, b, op, c) ==
    /\ e.Type = AST_ADD
    /\ NumberTerm(e.Value_Term, a)
    /\ e.Value_Exp # Nil
    /\ e.Value_Exp.Type = 0
    /\ e.Value_Exp.Value_Exp = Nil
    /\ e.Value_Exp.Value_Term.Type = OperatorOf(op)
    /\ e.Value_Exp.Value_Term.Value_Factor.Type = AST_NUMBER
    /\ e.Value_Exp.Value_Term.Value_Factor.Value_Number = b
    /\ NumberTerm(e.Value_Exp.Value_Term.Value_Term, c)

\* C12: every operator of the multiplicative level (* / ^ % ~) binds
\* tighter than + : the tree of a + b op c is an add node whose term is the
\* factor a and whose tail's term is the chain b op c, as for 1 + 2 * 3 and
\* 1 + 2 ~ 10
C12_MultiplicativeBindsTighter ==
    /\ \A op \in MultiplicativeChars :
          (ExpressionOver /\ data = PrecedenceText(op)) =>
              /\ ExpressionParsed
              /\ SumOfProduct(ast_basic_exp, <<"1">>, <<"2">>, op, <<"3">>)
    /\ (ExpressionOver /\ data = Txt_Random) =>
              /\ ExpressionParsed
              /\ SumOfProduct(ast_basic_exp, <<"1">>, <<"2">>, "~", <<"1", "0">>)

C12_Witness ==
    /\ pc = "checked"
    /\ data = Txt_Random
    /\ ast_basic_exp.Type = AST_ADD
    /\ ast_basic_exp.Value_Exp.Value_Term.Type = AST_RAND

\* the tag of the left-most leaf factor of a tree, found by descending first
\* children and through parenthesized sub-expressions
RECURSIVE LeftLeaf_Expression(_), LeftLeaf_Term(_), LeftLeaf_Factor(_)
LeftLeaf_Factor(f) ==
    IF f.Type = AST_ARITHMETICEXPRESSION
    THEN LeftLeaf_Expression(f.Value_Arithmetic_Expression)
    ELSE f.Type

LeftLeaf_Term(t) == LeftLeaf_Factor(t.Value_Factor)

LeftLeaf_Expression(e) == LeftLeaf_Term(e.Value_Term)

\* some binary node of the tree, at either level and inside any parentheses,
\* has sides of the two types
RECURSIVE SidesIn_Expression(_, _), SidesIn_Term(_, _), SidesIn_Factor(_, _)
SidesIn_Factor(f, types) ==
    /\ f.Type = AST_ARITHMETICEXPRESSION
    /\ SidesIn_Expression(f.Value_Arithmetic_Expression, types)

SidesIn_Term(t, types) ==
    \/ SidesIn_Factor(t.Value_Factor, types)
    \/ /\ t.Value_Term # Nil
       /\ \/ {LeftLeaf_Factor(t.Value_Factor), LeftLeaf_Term(t.Value_Term)} = types
          \/ SidesIn_Term(t.Value_Term, types)

SidesIn_Expression(e, types) ==
    \/ SidesIn_Term(e.Value_Term, types)
    \/ /\ e.Value_Exp # Nil
       /\ \/ {LeftLeaf_Term(e.Value_Term), LeftLeaf_Expression(e.Value_Exp)} = types
          \/ SidesIn_Expression(e.Value_Exp, types)

CheckOver == pc \in {"checked", "check_exit", "check_panic"}

\* C13: CheckType aborts with the Number/Boolean type error, and returns no
\* tag, for every tree in which a Number operand and a Boolean operand are
\* the two sides of some binary node, at either level, in either order and
\* inside any parentheses, as in 1*2+true+4+(5+false)
C13_NumberBooleanRejected ==
    /\ (CheckOver /\ SidesIn_Expression(ast_basic_exp, {AST_NUMBER, AST_BOOL})) =>
          /\ pc = "check_exit"
          /\ check_type.status = "exit"
          /\ check_type.error = "number-bool"
    /\ (ExpressionOver /\ data = Txt_TestExpression) =>
          /\ ExpressionParsed
          /\ SidesIn_Expression(ast_basic_exp, {AST_NUMBER, AST_BOOL})

C13_Witness ==
    /\ pc = "check_exit"
    /\ data = Txt_TestExpression
    /\ check_type.error = "number-bool"

\* C14: parsing and then type-checking 1 + "x" ends in the Number/String
\* type conflict reported by CheckType: the string literal is parsed into a
\* String factor and CheckType rejects the tree
C14_StringTypeConflict ==
    (ExpressionOver /\ data = Txt_NumberPlusString) =>
        /\ ExpressionParsed
        /\ CheckOver =>
              /\ SidesIn_Expression(ast_basic_exp, {AST_NUMBER, AST_STRING})
              /\ pc = "check_exit"
              /\ check_type.error = "number-string"

\* C15: for every tree CheckType accepts, the tag returned is the tag of
\* the tree's left-most leaf factor: a binary node returns its left
\* operand's type, a pass-through node its single child's type and a
\* parenthesized factor the type of the expression it wraps
C15_LeftMostLeafType ==
    pc = "checked" =>
        /\ check_type.status = "ok"
        /\ check_type.type = LeftLeaf_Expression(ast_basic_exp)

C15_Witness ==
    /\ pc = "checked"
    /\ ast_basic_exp.Type = AST_ADD
    /\ ast_basic_exp.Value_Term.Value_Factor.Type = AST_ARITHMETICEXPRESSION
    /\ ast_basic_exp.Value_Term.Value_Factor.Value_Arithmetic_Expression.Type # 0
    /\ LeftLeaf_Expression(ast_basic_exp.Value_Exp) = AST_NUMBER
    /\ check_type.type = AST_VAR

\* the positions of an operation in the calls of the parser
CallsOf(op) == {k \in 1..Len(calls) : calls[k] = op}

\* C16: the first ParseError stops the parse: the error list never holds
\* more than one ParseError of the grammar rules, and no GetToken or
\* BackToken call is made after an error has been recorded
C16_FirstErrorHalts ==
    ParseOver =>
        /\ Len(Error_List) <= 1
        /\ Cardinality(CallsOf("PushError")) = Len(Error_List)
        /\ \A k \in CallsOf("PushError") : k = Len(calls)
        /\ (Error_List # <<>>) <=> (pc = "parse_exit")

C16_Witness ==
    /\ pc = "parse_exit"
    /\ data = Txt_BadAssign \o Txt_NL \o Txt_BadAssign
    /\ Len(Error_List) = 1
    /\ Len(calls) > 1
    /\ current_iterator = 4

\* the statements that begin with an identifier followed by none of ( = ,
WordStatements ==
    {Txt_WordPlus, Txt_WordPlus \o Txt_NL, Txt_WordAlone \o Txt_NL}

\* C17: a statement start that Statement does not recognise is a syntax
\* error that aborts; in particular an identifier followed by none of ( = ,
\* (foo + 1, or foo and a line break) records a ParseError and halts
C17_UnknownStatementAborts ==
    /\ (ParseOver /\ data \in {Txt_NumberStart, Txt_NumberStart \o Txt_NL}) =>
          pc = "parse_exit" /\ Len(Error_List) = 1
    /\ (ParseOver /\ data \in WordStatements) =>
          pc = "parse_exit" /\ Len(Error_List) = 1

\* C18: when the scan has recorded a LexError the run halts at the end of
\* the scan, the whole text scanned, and no parser step ever happens: no
\* GetToken, no BackToken, no grammar rule
C18_LexGate ==
    (Error_list # <<>> /\ pc # "scan") =>
        /\ pc = "exit"
        /\ i >= Len(data)
        /\ token_list[Len(token_list)].Value = <<"E", "n", "d">>
        /\ calls = <<>>
        /\ trace = <<>>
        /\ Error_List = <<>>

C18_Witness ==
    /\ pc = "exit"
    /\ data = Txt_LexBad \o Txt_NL \o Txt_Call
    /\ Len(Error_list) = 1
    /\ Len(token_list) = 7

\* the characters of the scan alphabet that no case of the switch takes
Unrecognized == {"#", "\\"}

IsUnrecognized(c) == c \in Unrecognized

IsIllegalToken(e) == e.error_info = "illegal token"

\* the characters the "illegal token" errors name, in the order recorded
IllegalTokenChars ==
    LET errs == SelectSeq(Error_list, IsIllegalToken) IN
    [k \in 1..Len(errs) |-> errs[k].ch]

Unterminated(d) == Cardinality({k \in 1..Len(d) : d[k] = "\""}) = 1

\* C20: a string literal opened by a quote and not closed before the text
\* ends yields the LexError lose a '"', and the scan still reaches the end
\* of the text, also when the literal's last character is the backslash
C20_UnterminatedString ==
    (pc # "scan" /\ Unterminated(data)) =>
        /\ pc = "exit"
        /\ i >= Len(data)
        /\ Cardinality(LexErrors("lose a '\"'")) = 1

(***************************************************************************)
(* AST_Number used by a client, as Test_BigNumber does: New_ASTNumber on   *)
(* each literal in turn, and any calls of Add, Sub, Mul, Div, Abs and Mod  *)
(* on the objects made so far, with any of them as receiver and operands   *)
(***************************************************************************)
\* big.Rat has no largest value; a call is left out when it would make a
\* numerator or a denominator larger than this
MaxMagnitude == 10

\* the calls of Add, Sub, Mul, Div, Abs and Mod a client makes at most
MaxArith == 2

NumberLiterals ==
    {<<"0">>, <<"0", ".", "1">>, <<"0", ".", "2">>, <<"0", ".", "5", "0">>}

NumberTexts ==
    {<<x>> : x \in NumberLiterals}
        \cup {<<x, y>> : x \in NumberLiterals, y \in NumberLiterals}
        \cup {<< <<"0", ".", "1">>, <<"0", ".", "2">>, <<"0">> >>}

Fits(r) ==
    \A k \in 1..Len(r.numbers) :
        Magnitude(r.numbers[k].num) <= MaxMagnitude /\ r.numbers[k].den <= MaxMagnitude

NumberCall(op, s, a, b, r) ==
    /\ op # "New" => arith.n < MaxArith
    /\ Fits(r)
    /\ numbers' = r.numbers
    /\ arith' = [op |-> op, s |-> s, a |-> a, b |-> b,
                 va |-> IF a = 0 THEN NewRat(0, 1) ELSE numbers[a],
                 vb |-> IF b = 0 THEN NewRat(0, 1) ELSE numbers[b],
                 ret |-> r.ret, panic |-> r.panic,
                 n |-> IF op = "New" THEN arith.n ELSE arith.n + 1]
    /\ pc' = IF r.panic THEN "number_panic" ELSE "number"
    /\ UNCHANGED <<data, i, token_list, Error_list, Line, Column, current_iterator,
                   Count, Error_List, trace, hist, ast_basic_exp, check_type, calls,
                   literals>>

NumberNew ==
    /\ pc = "number"
    /\ Len(numbers) < Len(literals)
    /\ NumberCall("New", 0, 0, 0, New_ASTNumber(numbers, literals[Len(numbers) + 1]))

NumberAdd ==
    /\ pc = "number"
    /\ \E s, a, b \in 1..Len(numbers) :
           NumberCall("Add", s, a, b, AST_Number_Add(numbers, s, a, b))

NumberSub ==
    /\ pc = "number"
    /\ \E s, a, b \in 1..Len(numbers) :
           NumberCall("Sub", s, a, b, AST_Number_Sub(numbers, s, a, b))

NumberMul ==
    /\ pc = "number"
    /\ \E s, a, b \in 1..Len(numbers) :
           NumberCall("Mul", s, a, b, AST_Number_Mul(numbers, s, a, b))

NumberDiv ==
    /\ pc = "number"
    /\ \E s, a, b \in 1..Len(numbers) :
           NumberCall("Div", s, a, b, AST_Number_Div(numbers, s, a, b))

NumberAbs ==
    /\ pc = "number"
    /\ \E s, a, b \in 1..Len(numbers) :
           NumberCall("Abs", s, a, b, AST_Number_Abs(numbers, s, a, b))

NumberMod ==
    /\ pc = "number"
    /\ \E s, a, b \in 1..Len(numbers) :
           NumberCall("Mod", s, a, b, AST_Number_Mod(numbers, s, a, b))

InitNumber ==
    /\ data = <<>>
    /\ i = 0
    /\ token_list = <<>>
    /\ Error_list = <<>>
    /\ Line = 1
    /\ Column = 1
    /\ current_iterator = 0
    /\ Count = 1
    /\ Error_List = <<>>
    /\ pc = "number"
    /\ trace = <<>>
    /\ hist = <<>>
    /\ ast_basic_exp = Nil
    /\ calls = <<>>
    /\ check_type = NoCheck
    /\ literals \in NumberTexts
    /\ numbers = <<>>
    /\ arith = NoArith

NextNumber ==
    NumberNew \/ NumberAdd \/ NumberSub \/ NumberMul \/ NumberDiv \/ NumberAbs \/ NumberMod

SpecNumber == InitNumber /\ [][NextNumber]_vars

\* a call of Add, Sub, Mul, Div or Abs has just returned
Operated == arith.op \in {"Add", "Sub", "Mul", "Div", "Abs"} /\ ~arith.panic

\* C21: Add, Sub, Mul, Div and Abs leave every AST_Number that existed
\* before the call unchanged, the receiver and the operands included, and
\* return an object that did not exist before the call.
C21_ImmutableValues ==
    [][Operated' =>
          /\ \A k \in 1..Len(numbers) : numbers'[k] = numbers[k]
          /\ arith'.ret \notin 1..Len(numbers)]_vars

\* C21 as amended: a call of Add, Sub, Mul, Div or Abs that returns writes
\* its result into the receiver and returns the receiver; it makes no new
\* object and leaves every object but the receiver unchanged.
C21_ResultInReceiver ==
    [][Operated' =>
          /\ arith'.ret = arith'.s
          /\ Len(numbers') = Len(numbers)
          /\ \A k \in 1..Len(numbers) : k # arith'.s => numbers'[k] = numbers[k]
          /\ numbers'[arith'.s] =
                 CASE arith'.op = "Add" -> Rat_Add(numbers[arith'.a], numbers[arith'.b])
                   [] arith'.op = "Sub" -> Rat_Sub(numbers[arith'.a], numbers[arith'.b])
                   [] arith'.op = "Mul" -> Rat_Mul(numbers[arith'.a], numbers[arith'.b])
                   [] arith'.op = "Div" -> Rat_Quo(numbers[arith'.a], numbers[arith'.b])
                   [] arith'.op = "Abs" -> Rat_Abs(numbers[arith'.a])]_vars

\* Test_BigNumber's shape: tmp.Mul(tmp, other) has changed tmp, the receiver
\* and first operand, and left other as it was
C21_Witness ==
    /\ arith.op = "Mul" /\ ~arith.panic
    /\ arith.s = arith.a /\ arith.b # arith.s
    /\ arith.ret = arith.s
    /\ numbers[arith.s] # arith.va
    /\ numbers[arith.b] = arith.vb

\* the fraction each literal of NumberLiterals writes, worked out by hand
FractionOf(text) ==
    CASE text = <<"0">> -> [num |-> 0, den |-> 1]
      [] text = <<"0", ".", "1">> -> [num |-> 1, den |-> 10]
      [] text = <<"0", ".", "2">> -> [num |-> 1, den |-> 5]
      [] text = <<"0", ".", "5", "0">> -> [num |-> 1, den |-> 2]

\* x = p / q as fractions, by cross multiplication
EqualsQuotient(x, p, q) == x.num * q = p * x.den

Reduced(x) == x.den > 0 /\ GCD(Magnitude(x.num), x.den) = 1

\* C22: a value built from a decimal literal is that decimal as a fraction;
\* what Add, Sub, Mul and Div return is exactly the sum, the difference, the
\* product and the quotient of the operands as they were at the call; and
\* every value is a fraction in lowest terms with a positive denominator.
C22_ExactArithmetic ==
    /\ \A k \in 1..Len(numbers) : Reduced(numbers[k])
    /\ arith.op = "New" => numbers[arith.ret] = FractionOf(literals[arith.ret])
    /\ arith.op = "Add" /\ ~arith.panic =>
           EqualsQuotient(numbers[arith.ret],
                          arith.va.num * arith.vb.den + arith.vb.num * arith.va.den,
                          arith.va.den * arith.vb.den)
    /\ arith.op = "Sub" /\ ~arith.panic =>
           EqualsQuotient(numbers[arith.ret],
                          arith.va.num * arith.vb.den - arith.vb.num * arith.va.den,
                          arith.va.den * arith.vb.den)
    /\ arith.op = "Mul" /\ ~arith.panic =>
           EqualsQuotient(numbers[arith.ret],
                          arith.va.num * arith.vb.num, arith.va.den * arith.vb.den)
    /\ arith.op = "Div" /\ ~arith.panic =>
           EqualsQuotient(numbers[arith.ret],
                          arith.va.num * arith.vb.den, arith.va.den * arith.vb.num)

\* add(0.1, 0.2) has returned 3/10, and an earlier Div has left a value that
\* is not a whole number
C22_Witness ==
    /\ arith.op = "Add" /\ ~arith.panic
    /\ arith.va = [num |-> 1, den |-> 10]
    /\ arith.vb = [num |-> 1, den |-> 5]
    /\ numbers[arith.ret] = [num |-> 3, den |-> 10]
    /\ arith.n = 2
    /\ \E k \in 1..Len(numbers) : numbers[k].den = 2 /\ literals[k] # <<"0", ".", "5", "0">>

\* the type of the token at position k, 0 where there is none
TypeAt(k) == IF k \in 1..Len(token_list) THEN token_list[k].Type ELSE 0

\* the position of the first token of type t, 0 when there is none
FirstOf(t) ==
    IF \E k \in 1..Len(token_list) : TypeAt(k) = t
    THEN CHOOSE k \in 1..Len(token_list) :
             TypeAt(k) = t /\ \A j \in 1..(k - 1) : TypeAt(j) # t
    ELSE 0

\* p follows a type name: the position after the last ", name" that follows
RECURSIVE AfterTypeNames(_)
AfterTypeNames(p) ==
    IF TypeAt(p) = COMMA /\ TypeAt(p + 1) = WORD THEN AfterTypeNames(p + 2) ELSE p

\* func, name, (, parameters, ), ->, type names with commas between, {
FuncInOrder ==
    LET rp == FirstOf(RP) IN
    /\ TypeAt(1) = FUNC /\ TypeAt(2) = WORD /\ TypeAt(3) = LP
    /\ rp > 3
    /\ TypeAt(rp + 1) = CASTING
    /\ TypeAt(rp + 2) = WORD
    /\ TypeAt(AfterTypeNames(rp + 3)) = LBRACE

\* the program begins with a function declaration, which is on line 1
FuncDeclared == ParseOver /\ TypeAt(1) = FUNC

FuncRejected == \E k \in 1..Len(Error_List) : Error_List[k].Line = 1

\* C23: a function declaration is accepted only when its tokens are in the
\* order func, name, (, parameters, ), ->, one or more type names, block:
\* with no -> after ), no type name after ->, or the block before the
\* annotation a ParseError is recorded and the parse halts before any block
\* is entered; several return types and an empty parameter list are accepted
C23_FuncOrder ==
    FuncDeclared =>
        /\ ~FuncInOrder => FuncRejected
        /\ FuncRejected => pc = "parse_exit" /\ RulesEntered("BlockStatement") = {}
        /\ ~FuncRejected => RulesEntered("BlockStatement") # {}
        /\ \A n \in {0, 1}, k \in {1, 2} :
               data = FuncDecl(n, TRUE, k, FALSE) \o Txt_NL =>
                   pc = "parsed" /\ Error_List = <<>>

\* func f() -> int, int { } has been parsed with no error
C23_Witness ==
    /\ pc = "parsed"
    /\ data = FuncDecl(0, TRUE, 2, FALSE) \o Txt_NL
    /\ FuncInOrder
    /\ Error_List = <<>>
    /\ RulesEntered("FuncReturnType_Factor") # {} \/ RulesEntered("BlockStatement") # {}

\* the program begins with var and a name, so trace[3] is VarStatement
VarDeclared ==
    /\ ParseOver
    /\ TypeAt(1) = VAR /\ TypeAt(2) = WORD
    /\ Len(trace) >= 3 /\ trace[3] = <<"VarStatement", 1>>

\* the cursor at which the rule after VarStatement and its callees is
\* entered, that is where the statement loop goes on (0 when none is)
RuleAfter(k) == IF Len(trace) >= k THEN trace[k] ELSE <<"", 0>>

\* C24: after var and the name VarStatement looks at one token.  When it is
\* -> the statement is var name -> typeName: four tokens are consumed and
\* AssigmentStatement is not called.  Otherwise the cursor is put back on
\* the name and AssigmentStatement is called there; var a = 1 and
\* var a, b = f() are accepted and the statement loop goes on at the
\* separator that follows them.
C24_VarLookahead ==
    VarDeclared =>
        /\ TypeAt(3) = CASTING /\ TypeAt(4) = WORD =>
               /\ Error_List = <<>> \/ Error_List[1].Line > 1
               /\ RuleAfter(4) = <<"TMP_MainStatement", 5>>
               /\ \A k \in RulesEntered("AssigmentStatement") : trace[k][2] > 5
        /\ TypeAt(3) # CASTING => RuleAfter(4) = <<"AssigmentStatement", 2>>
        /\ \A text \in {Txt_VarAssign, Txt_VarMulti} :
               data = text \o Txt_NL =>
                   /\ pc = "parsed" /\ Error_List = <<>>
                   /\ trace[Len(trace)] = <<"TMP_MainStatement", FirstOf(EOF)>>

\* C25: each built-in type name, number included, is accepted where a type
\* name is expected: var a -> T, a parameter var a -> T and a return type
\* -> T parse with no ParseError for T = number as they do for int and string
C25_TypeNamesAccepted ==
    \A text \in TypeUses :
        (ParseOver /\ data = text \o Txt_NL) => pc = "parsed" /\ Error_List = <<>>

\* C26: for each n >= 1 the assignment x1, ..., xn = e1, ..., en is consumed
\* completely: it parses with no error and the statement loop goes on at the
\* separator after en
C26_AssignmentListAnyLength ==
    \A n \in 1..3 :
        (ParseOver /\ data = AssignList(n) \o Txt_NL) =>
            /\ pc = "parsed" /\ Error_List = <<>>
            /\ trace[Len(trace)] = <<"TMP_MainStatement", FirstOf(EOF)>>

\* C27: a comparison factor E1 op E2, op one of > < >= <=, is accepted for
\* all arithmetic expressions E1 and E2, an E1 that begins with a
\* parenthesized sub-expression included, and so are factors joined with
\* && and ||: each such condition of an if statement parses with no error
C27_ComparisonFactors ==
    \A cond \in ComparisonConds :
        (ParseOver /\ data = IfWith(cond) \o Txt_NL) =>
            pc = "parsed" /\ Error_List = <<>>

\* the if statement that begins the program has a condition whose first
\* factor is the name at position 3 followed by a token that neither
\* continues the arithmetic expression nor compares
NoComparisonAfterName ==
    /\ ParseOver
    /\ TypeAt(1) = TK_IF /\ TypeAt(2) = LP /\ TypeAt(3) = WORD
    /\ TypeAt(4) \in {EQ, NOEQ, RP, ASSIGMENT, ALSO, PERHAPS}

\* C28: the boolean-expression grammar never consumes == or !=.  When the
\* token after the left arithmetic expression of a factor is none of
\* > < >= <= Boolean_Expression_Factor records a ParseError and the parse
\* halts with that token the last one taken; an == after a complete factor
\* is not taken by the grammar either, the parse halts on it.
C28_EqualityNeverConsumed ==
    /\ NoComparisonAfterName =>
           /\ pc = "parse_exit"
           /\ Len(Error_List) = 1
           /\ Error_List[1].expecting
                  = "'(' || '>' || '<' || '>=' || '<=' ->Boolean_Expression_Factor"
           /\ current_iterator = 5
    /\ (ParseOver /\ \E k \in 1..Len(token_list) : TypeAt(k) \in {EQ, NOEQ}) =>
           /\ pc = "parse_exit"
           /\ Len(Error_List) = 1
           /\ current_iterator = FirstOf(EQ) + 1

\* if (a == b) { } has halted on the ==
C28_Witness ==
    /\ pc = "parse_exit"
    /\ data = IfWith(Cond_Equal) \o Txt_NL
    /\ TypeAt(4) = EQ
    /\ current_iterator = 5
    /\ Len(Error_List) = 1

\* the IsEnd calls made with the cursor on a token, that returned
IsEndCalls ==
    {k \in 1..Len(hist) : hist[k].op = "IsEnd" /\ hist[k].from >= 1 /\ ~hist[k].panic}

\* C29: once IsEnd is true at a cursor position it is true at every later
\* position up to and including the terminal marker, the last token
C29_IsEndStaysTrue ==
    \A j \in IsEndCalls, k \in IsEndCalls :
        (hist[j].ret = 1 /\ hist[j].from <= hist[k].from) => hist[k].ret = 1

\* C30: GetToken returns the token under the cursor and advances the cursor
\* by one; n BackToken calls after n GetToken calls from the start put the
\* cursor back on the first token, each returning the token it stepped onto;
\* and BackToken on the first token stays there and does not fault
C30_GetAndRewind ==
    /\ \A k \in 1..Len(hist) :
           (hist[k].op = "GetToken" /\ hist[k].from >= 1) =>
               /\ ~hist[k].panic
               /\ hist[k].ret = hist[k].from
               /\ hist[k].to = (IF hist[k].from = Len(token_list) THEN 0
                                ELSE hist[k].from + 1)
    /\ \A n \in 1..MaxCalls :
           (Len(hist) = 2 * n /\ GetsThenBacks(n)) =>
               /\ pc = "ready"
               /\ current_iterator = 1
               /\ \A k \in (n + 1)..(2 * n) : hist[k].ret = hist[k].to
    /\ \A k \in 1..Len(hist) :
           (hist[k].op = "BackToken" /\ hist[k].from = 1) =>
               ~hist[k].panic /\ hist[k].to = 1

\* C31: the factor returned for a call f(a1, ..., an) has the function-call
\* tag, and its call node holds the callee name f and the n argument
\* expressions, each a tree of its own, in source order
C31_CallNodeHoldsNameAndArguments ==
    \A n \in 0..2 :
        (pc \in {"parsed", "checked"} /\ data = CallText(n)) =>
            LET factor == ast_basic_exp.Value_Term.Value_Factor IN
            /\ factor.Type = AST_CALLFUNC
            /\ factor.Value_CallFunc # Nil
            /\ factor.Value_CallFunc.name = <<"f">>
            /\ Len(factor.Value_CallFunc.arguments) = n
            /\ \A k \in 1..n : factor.Value_CallFunc.arguments[k] # Nil

\* C32: a block is a statement.  The block { } as a top-level statement
\* parses with no error, and when the dispatch of Statement calls
\* BlockStatement for the first statement, that block is parsed with no
\* error
C32_BlockIsStatement ==
    /\ (ParseOver /\ data = Txt_EmptyBlock \o Txt_NL) =>
           pc = "parsed" /\ Error_List = <<>>
    /\ (ParseOver /\ RuleAfter(3) = <<"BlockStatement", 1>>) =>
           ~\E k \in 1..Len(Error_List) : Error_List[k].Line = 1

\* the BackToken calls made between the last GetToken and the PushError
RECURSIVE BacksBefore(_)
BacksBefore(k) ==
    IF k >= 1 /\ calls[k] = "BackToken" THEN 1 + BacksBefore(k - 1) ELSE 0

\* the position of the last token a rule took before the error was
\* recorded, the token that did not match
OffendingToken ==
    LET backs == BacksBefore(Len(calls) - 1) IN
    IF current_iterator = 0 THEN Len(token_list) ELSE current_iterator - 1 + backs

\* C33: a ParseError names the token that did not match: its line, its
\* column and the text after "unexpected" are those of the last token the
\* rule took, for every rule
C33_ErrorNamesOffendingToken ==
    (pc = "parse_exit" /\ Len(Error_List) = 1 /\ calls[Len(calls)] = "PushError") =>
        /\ Error_List[1].Line = token_list[OffendingToken].Line
        /\ Error_List[1].Column = token_list[OffendingToken].Column
        /\ Error_List[1].unexpected = token_list[OffendingToken].Value

\* the position of the } that closes the { counted as depth 1: MatchingBrace(p, 0)
\* for a { at position p
RECURSIVE MatchingBrace(_, _)
MatchingBrace(k, depth) ==
    IF k > Len(token_list) THEN 0
    ELSE IF TypeAt(k) = LBRACE THEN MatchingBrace(k + 1, depth + 1)
    ELSE IF TypeAt(k) = RBRACE
         THEN IF depth = 1 THEN k ELSE MatchingBrace(k + 1, depth - 1)
    ELSE MatchingBrace(k + 1, depth)

\* the cursor when the first statement of the program has returned to the
\* statement loop
AfterFirstStatement ==
    IF RulesEntered("TMP_MainStatement") = {} THEN 0
    ELSE LET k == CHOOSE k \in RulesEntered("TMP_MainStatement") :
                      \A j \in RulesEntered("TMP_MainStatement") : k <= j
         IN trace[k][2]

\* C34: for every well-formed block (any nesting of var, assignment, call, if,
\* for, return, break and continue statements on lines of their own) the one
\* BlockStatement call entered at the { leaves the cursor right after the
\* matching }, never after the } of an inner block
C34_BlockMatchesBraces ==
    (ParseOver /\ \E b \in NestedBlocks : data = b \o Txt_NL) =>
        /\ trace[CHOOSE k \in RulesEntered("BlockStatement") :
                     \A j \in RulesEntered("BlockStatement") : k <= j][2]
               = FirstOf(LBRACE)
        /\ AfterFirstStatement = MatchingBrace(FirstOf(LBRACE), 0) + 1

\* the same for the blocks that hold no if statement
C34_PlainBlocks ==
    (ParseOver /\ \E b \in PlainBlocks : data = b \o Txt_NL) =>
        /\ AfterFirstStatement = MatchingBrace(FirstOf(LBRACE), 0) + 1
        /\ pc = "parsed" /\ Error_List = <<>>

\* C35: after an if statement without elseif and else the cursor is on the
\* token right after the } of its block, and the separator and the statement
\* that follow are parsed, at top level and inside an enclosing block
C35_IfLeavesCursorAfterBlock ==
    /\ (ParseOver /\ \E f \in {Txt_Call, Txt_MultiAssign} :
                         data = IfChain(0, FALSE) \o Txt_NL \o f \o Txt_NL) =>
           /\ AfterFirstStatement = FirstOf(RBRACE) + 1
           /\ pc = "parsed"
           /\ \E k \in RulesEntered("Statement") : trace[k][2] = FirstOf(RBRACE) + 2
    /\ (ParseOver /\ data = LoopOver(<<IfOver(<<>>), Txt_Call>>) \o Txt_NL) =>
           /\ pc = "parsed" /\ Error_List = <<>>
           /\ RulesEntered("CallFuncStatement") # {}

\* the source ends with a line break, so that the parse never steps past the
\* terminal marker
EndsWithLineBreak == data # <<>> /\ data[Len(data)] = "\n"

\* the tokens before the terminal marker, other than statement separators,
\* that the parse left unread: those from the cursor on
Unread ==
    {k \in 1..(Len(token_list) - 1) :
        current_iterator # 0 /\ k >= current_iterator /\ TypeAt(k) # EOF}

\* C36: a parse that returns without a ParseError has consumed every token of
\* the program before the terminal marker; tokens that follow a complete
\* statement with no separator in between, and a stray } at top level, give a
\* ParseError
C36_NoErrorMeansAllConsumed ==
    /\ (pc = "parsed" /\ Error_List = <<>> /\ EndsWithLineBreak) => Unread = {}
    /\ (ParseOver /\ \E t \in {Txt_TwoAssign, Txt_CallBrace, Txt_Brace} :
                         data = t \o Txt_NL) => Error_List # <<>>

\* the n-th smallest number of a set of numbers
NthOf(S, n) == CHOOSE x \in S : Cardinality({y \in S : y < x}) = n - 1

\* a source made of words of the letters a and f, blanks and line ends
PlainWords == \A j \in 1..Len(data) : data[j] \in {"a", "f", " ", "\n", "\r"}

\* the offsets in the source at which a word starts
WordStarts ==
    {j \in 1..Len(data) :
        data[j] \in {"a", "f"} /\ (j = 1 \/ data[j - 1] \notin {"a", "f"})}

\* the 1-based offset of the code point at j within its line: the line starts
\* after the last \n or \r before j
OffsetInLine(j) ==
    LET ends == {m \in 1..(j - 1) : data[m] \in {"\n", "\r"}} IN
    IF ends = {} THEN j ELSE j - NthOf(ends, Cardinality(ends))

WordTokens == {k \in 1..Len(token_list) : token_list[k].Type = WORD}

\* C37: the column recorded in a token is the 1-based offset of its first code
\* point within its line; the first token of a line has column 1 whichever of
\* \n, \r and \r\n ended the line before
C37_ColumnIsOffsetInLine ==
    (pc # "scan" /\ PlainWords) =>
        /\ Cardinality(WordTokens) = Cardinality(WordStarts)
        /\ \A n \in 1..Cardinality(WordTokens) :
               token_list[NthOf(WordTokens, n)].Column
                   = OffsetInLine(NthOf(WordStarts, n))

\* the same for the sources in which no line is ended by \r\n
C37_WithoutCRLF ==
    (pc # "scan" /\ PlainWords
       /\ ~\E j \in 1..(Len(data) - 1) : data[j] = "\r" /\ data[j + 1] = "\n") =>
        /\ Cardinality(WordTokens) = Cardinality(WordStarts)
        /\ \A n \in 1..Cardinality(WordTokens) :
               token_list[NthOf(WordTokens, n)].Column
                   = OffsetInLine(NthOf(WordStarts, n))

\* the shape of a tree: a term in every additive node, a factor in every
\* multiplicative node, and the operator tag 0 (none) exactly in the nodes
\* whose tail is nil
RECURSIVE WellFormed_Expression(_), WellFormed_Term(_), WellFormed_Factor(_)
WellFormed_Expression(s) ==
    /\ s # Nil
    /\ s.Value_Term # Nil
    /\ (s.Type = 0) <=> (s.Value_Exp = Nil)
    /\ WellFormed_Term(s.Value_Term)
    /\ s.Value_Exp # Nil => WellFormed_Expression(s.Value_Exp)

WellFormed_Term(s) ==
    /\ s # Nil
    /\ s.Value_Factor # Nil
    /\ (s.Type = 0) <=> (s.Value_Term = Nil)
    /\ WellFormed_Factor(s.Value_Factor)
    /\ s.Value_Term # Nil => WellFormed_Term(s.Value_Term)

WellFormed_Factor(s) ==
    /\ s # Nil
    /\ s.Type = AST_ARITHMETICEXPRESSION =>
           WellFormed_Expression(s.Value_Arithmetic_Expression)

\* C38: every tree returned by Arithmetic_Expression has a term in every
\* additive node and a factor in every multiplicative node, and the operator
\* tag of a node is none exactly when its tail is nil; CheckType on the tree
\* never dereferences a nil tail
C38_TreeWellFormed ==
    /\ (pc \in {"parsed", "checked", "check_exit", "check_panic"}) =>
           WellFormed_Expression(ast_basic_exp)
    /\ pc # "check_panic"

\* the tree of 1*2+true+4+(5+false) is returned: additive and multiplicative
\* nodes with a tail, nodes without one, and a tree inside a factor
C38_Witness ==
    /\ pc = "parsed"
    /\ data = Txt_TestExpression
    /\ ast_basic_exp.Type = AST_ADD
    /\ ast_basic_exp.Value_Term.Type = AST_MUL
    /\ ast_basic_exp.Value_Exp.Value_Term.Type = 0

\* the pairs of types CheckType forbids as the two sides of an operator
ForbiddenPair(Type1, Type2) ==
    {Type1, Type2} \in {{AST_NUMBER, AST_BOOL}, {AST_NUMBER, AST_STRING},
                        {AST_NUMBER, AST_CHAR}}

\* the operands x0, ..., xn of the chain that starts at a node: the terms of
\* an additive chain, the factors of a multiplicative chain
RECURSIVE Operands_Expression(_)
Operands_Expression(e) ==
    <<e.Value_Term>> \o
        (IF e.Value_Exp = Nil THEN <<>> ELSE Operands_Expression(e.Value_Exp))

RECURSIVE Operands_Term(_)
Operands_Term(t) ==
    <<t.Value_Factor>> \o
        (IF t.Value_Term = Nil THEN <<>> ELSE Operands_Term(t.Value_Term))

\* some chain of the tree has two consecutive operands whose resolved types
\* are a forbidden pair
RECURSIVE PairIn_Expression(_), PairIn_Term(_), PairIn_Factor(_)
PairIn_Factor(f) ==
    /\ f.Type = AST_ARITHMETICEXPRESSION
    /\ PairIn_Expression(f.Value_Arithmetic_Expression)

PairIn_Term(t) ==
    LET xs == Operands_Term(t) IN
    \/ \E k \in 1..Len(xs) : PairIn_Factor(xs[k])
    \/ \E k \in 1..(Len(xs) - 1) :
           ForbiddenPair(LeftLeaf_Factor(xs[k]), LeftLeaf_Factor(xs[k + 1]))

PairIn_Expression(e) ==
    LET xs == Operands_Expression(e) IN
    \/ \E k \in 1..Len(xs) : PairIn_Term(xs[k])
    \/ \E k \in 1..(Len(xs) - 1) :
           ForbiddenPair(LeftLeaf_Term(xs[k]), LeftLeaf_Term(xs[k + 1]))

\* C39: CheckType aborts exactly when two consecutive operands of some chain
\* x0 op1 x1 ... opn xn have resolved types that are a forbidden pair
\* {Number, Boolean}, {Number, String} or {Number, Char}; operands tagged as a
\* variable, a call, an increment or a decrement never cause a rejection, so
\* true + x + 1 is accepted
C39_ConsecutiveOperands ==
    /\ CheckOver => (pc = "check_exit" <=> PairIn_Expression(ast_basic_exp))
    /\ (CheckOver /\ data \in {Txt_True \o <<"+">> \o Txt_Var \o <<"+">> \o Txt_One}
                               \cup TaggedOperandChains) => pc = "checked"

\* true+x+1, a chain of three operands, is accepted with the type of true
C39_Witness ==
    /\ pc = "checked"
    /\ data = Txt_True \o <<"+">> \o Txt_Var \o <<"+">> \o Txt_One
    /\ check_type = Checked(AST_BOOL)
    /\ Len(Operands_Expression(ast_basic_exp)) = 3
====
